---- MODULE Spec2Model ----
(***************************************************************************)
(* A model of the libchrome developer tools:                               *)
(*   - the history rewriter  (uprev/generate_filtered_tree.py, filters.py) *)
(*   - the build orchestrator (parallel_packages_checker.py)               *)
(*   - the library functions they call: the path filters (filters.py) and  *)
(*     the lazy tree (lazytree.LazyTree), and the failed matrix of the     *)
(*     orchestrator's State                                                *)
(*   - the verification of process_commits on long ranges of commits       *)
(*   - the filter-change driver (uprev/update_upstream.py)                 *)
(* The subsystems are independent; each has its own specification          *)
(* (SpecRewriter, SpecOrch, SpecFilters, SpecLazyTree, SpecState,          *)
(* SpecVerify, SpecUpdate) over the variables it uses.                     *)
(***************************************************************************)
EXTENDS Integers, Sequences, FiniteSets, TLC

VARIABLES
    \* ---- history rewriter ----
    upstream,                  \* the browser repository (the name of a history)
    objects,                   \* commits of the filtered repository, by hash
    head,                      \* tip of the filtered branch (parent_filtered)
    runs,                      \* invocations of main() so far
    pc,                        \* position of main()/process_commits
    look_forward,              \* process_commits argument
    commit_hash_meta_name,     \* process_commits argument
    pending_commits,           \* process_commits argument (git_revlist)
    i,                         \* loop index of process_commits (1-based)
    commits_map,               \* upstream hash -> filtered hash
    last_commit,               \* process_commits local
    last_verified,             \* process_commits local
    look_forward_until,        \* process_commits local (<<>> is None)
    ignore_look_forward_until, \* process_commits local
    committed,                 \* what commit_callback has been told
    verified,                  \* upstream commits verify_commit has passed
    stdout,                    \* what main() printed (0: nothing)
    err,                       \* uncaught exception that ended main()
    \* ---- build orchestrator ----
    arg,                       \* the parsed command line
    world,                     \* the chroot: boards and what equery prints
    states,                    \* State.states: board -> state name
    failed,                    \* State.failed: board -> failed packages,
                               \* a dict: (key, value) pairs in insertion
                               \* order
    work,                      \* the CheckOneBoard of each board
    phase,                     \* the executor block main() is in (1..5)
    wk,                        \* index of main()'s "for work in work_list"
    mpc,                       \* position of the main thread
    tasks,                     \* futures of the current executor
    unfinished_emerges,        \* main() local: futures (indices of tasks)
    scan,                      \* buildable_packages locals
    todo,                      \* packages buildable_packages returned that
                               \* main() has still to submit
    ever_failed,               \* history: boards that have been failed/bug
    output_directory,          \* arg.output_directory: path -> content
    main_error,                \* the exception that ended main() ("": none)
    invocations,               \* history: the external tools run for each
                               \* board in the first four blocks, in order,
                               \* each with its exit status
    \* ---- filters.py ----
    rules,                     \* the rule lists the Filter is built from
    arg_our_files,             \* filter_files argument our_files
    arg_upstream_files,        \* filter_files argument upstream_files
    filter_call,               \* the last call of a Filter method: its
                               \* name, argument and return value
    \* ---- lazytree ----
    root_treehash,             \* the tree the LazyTree is rooted at
    operations,                \* the edits made so far, in order
    git_lazytree,              \* the LazyTree
    hash_returned,             \* what hash() returned since the last edit
    \* ---- State, on its own ----
    state_failed,              \* State.failed
    matrix_returned,           \* what failed_matrix returned since the last
                               \* set_failed
    \* ---- process_commits on a long range ----
    commit_range,              \* the pending commits, by what the loop body
                               \* does with each
    verify_loop,               \* locals of process_commits
    verify_calls,              \* the calls of verify_commit so far
    \* ---- update_upstream.py ----
    args,                      \* the parsed command line
    cros_upstream,             \* commits of the filtered repository
    cursor_files,              \* utils.get_file_list of the original-commit
                               \* cursor of args.current
    update_main,               \* locals of main(): position, current, the
                               \* exception that ended it, what it printed
    stages                     \* history: the stages main() has started

ovars == <<arg, world, states, failed, work, phase, wk, mpc, tasks,
           unfinished_emerges, scan, todo, ever_failed, invocations,
           output_directory, main_error>>

rvars == <<upstream, objects, head, runs, pc, look_forward,
           commit_hash_meta_name, pending_commits, i, commits_map,
           last_commit, last_verified, look_forward_until,
           ignore_look_forward_until, committed, verified, stdout, err>>

fvars == <<rules, arg_our_files, arg_upstream_files, filter_call>>

tvars == <<root_treehash, operations, git_lazytree, hash_returned>>

mvars == <<state_failed, matrix_returned>>

pvars == <<commit_range, verify_loop, verify_calls>>

uvars == <<args, cros_upstream, cursor_files, update_main, stages>>

lvars == <<fvars, tvars, mvars, pvars, uvars>>

vars == <<rvars, ovars, lvars>>

(***************************************************************************)
(* Bounds of the model.                                                    *)
(***************************************************************************)
\* largest look-forward window passed to process_commits
MaxLookForward == 3
\* number of times main() is run on the same filtered repository
MaxRuns == 3

(***************************************************************************)
(* Program constants.                                                      *)
(***************************************************************************)
_VERIFY_INTEGRITY_DISTANCE == 1000

\* Python's None for hashes of the browser repository (strings) and of the
\* filtered repository (positive integers).
None == "None"
NoCommit == 0
ROOT == "ROOT"

CROS_LIBCHROME_ORIGINAL_COMMIT == "CrOS-Libchrome-Original-Commit"
CROS_LIBCHROME_RECOVERED_FROM_COMMIT == "CrOS-Libchrome-Recovered-From-Commit"
CROS_LIBCHROME_INITIAL_COMMIT == "Initial filtered commit"

(***************************************************************************)
(* Small helpers.                                                          *)
(***************************************************************************)
Range(s) == {s[k] : k \in DOMAIN s}

Last(s) == s[Len(s)]

\* the elements of the set S of sequences' position keys, ascending
RECURSIVE SortedSeq(_)
SortedSeq(S) ==
    IF S = {} THEN <<>>
    ELSE LET m == CHOOSE x \in S : \A y \in S : x <= y
         IN  <<m>> \o SortedSeq(S \ {m})

(***************************************************************************)
(* Files and trees.  A file record is (path, blob); a tree is a set of     *)
(* file records with unique paths, and its hash is canonical: two trees    *)
(* have the same hash exactly when they hold the same records.             *)
(***************************************************************************)
Paths == <<"Android.bp", "base/a.h", "base/b.h", "base/win/b.h">>

PathIndex(p) == CHOOSE k \in DOMAIN Paths : Paths[k] = p

GitFile(p, b) == [path |-> p, blob |-> b]

\* utils.git_mktree: the tree of a list of files
git_mktree(files) == Range(files)

\* the files of a tree, ordered by path
TreeFiles(tree) ==
    LET idx == {PathIndex(f.path) : f \in tree}
        at(k) == CHOOSE f \in tree : f.path = Paths[k]
        ord == SortedSeq(idx)
    IN  [k \in DOMAIN ord |-> at(ord[k])]

DiffOperations == [ADD |-> "A", DEL |-> "D", REP |-> "R"]

\* utils.git_difftree on two trees: one operation per path that differs, by
\* path; the file is the target's for ADD and REP, the source's for DEL
DiffTrees(ta, tb) ==
    LET pa == {f.path : f \in ta}
        pb == {f.path : f \in tb}
        fa(p) == CHOOSE f \in ta : f.path = p
        fb(p) == CHOOSE f \in tb : f.path = p
        changed == {k \in DOMAIN Paths :
                      \/ Paths[k] \in pa /\ Paths[k] \notin pb
                      \/ Paths[k] \notin pa /\ Paths[k] \in pb
                      \/ Paths[k] \in pa /\ Paths[k] \in pb
                         /\ fa(Paths[k]) # fb(Paths[k])}
        ord == SortedSeq(changed)
        op(p) == IF p \notin pa THEN [op |-> DiffOperations.ADD, file |-> fb(p)]
                 ELSE IF p \notin pb
                      THEN [op |-> DiffOperations.DEL, file |-> fa(p)]
                      ELSE [op |-> DiffOperations.REP, file |-> fb(p)]
    IN  [k \in DOMAIN ord |-> op(Paths[ord[k]])]

\* lazytree.LazyTree: tree[path] = f
LazyTreeSet(tree, f) == {g \in tree : g.path # f.path} \cup {f}

\* lazytree.LazyTree: del tree[path]; a path that is not there is left alone
LazyTreeDel(tree, p) == {g \in tree : g.path # p}

(***************************************************************************)
(* filters.py.  A rule (a compiled regex or a PathFilter) is modelled by   *)
(* the set of paths it matches; a rule list is a sequence of rules.        *)
(***************************************************************************)
Match(rule, what) == what \in rule

\* a rule that would match at the start of the path, as a compiled regex
\* does: the listed paths and the paths below them
PathFilter_match_start(paths) == Range(paths) \cup {"a/b/c/x", "d/e"}

\* PathFilter(paths): matches exactly the listed paths
PathFilter(paths) == Range(paths)

\* Filter.__init__
Filter(want, want_excluded, keep, keep_excluded) ==
    [want |-> want, want_excluded |-> want_excluded,
     keep |-> keep, keep_excluded |-> keep_excluded]

\* Filter._want_file
_want_file(f, path) ==
    LET wanted == \E k \in DOMAIN f.want : Match(f.want[k], path)
    IN  IF \E k \in DOMAIN f.want_excluded : Match(f.want_excluded[k], path)
        THEN FALSE
        ELSE wanted

\* Filter._keep_file
_keep_file(f, path) ==
    LET keep == \E k \in DOMAIN f.keep : Match(f.keep[k], path)
    IN  IF \E k \in DOMAIN f.keep_excluded : Match(f.keep_excluded[k], path)
        THEN FALSE
        ELSE keep

\* Filter.filter_files
filter_files(f, our_files, upstream_files) ==
    SelectSeq(upstream_files, LAMBDA uf : _want_file(f, uf.path))
    \o SelectSeq(our_files, LAMBDA of : _keep_file(f, of.path))

\* Filter.filter_diff: ok is FALSE when the assertion fails
filter_diff(f, diff) ==
    [ok    |-> \A k \in DOMAIN diff :
                 _want_file(f, diff[k].file.path)
                 => ~_keep_file(f, diff[k].file.path),
     value |-> SelectSeq(diff, LAMBDA ch : _want_file(f, ch.file.path))]

\* the paths the rules are evaluated on: the paths of the histories, paths
\* that bring out each rule list of filter_config.py, and the paths of
\* test_filters.py
FilterPaths ==
    {"Android.bp", "base/BUILD.gn", "base/a.h", "base/b.h",
     "base/buildflags.h", "base/hash/md5_nacl.h", "base/win/b.h",
     "chrome/x.cc", "third_party/ply/x.py",
     "unrelated_local_file", "keep/xxx", "keep_excluded/xxx",
     "want/xxx", "want_excluded/xxx", "unrelated_upstream_file",
     "a", "b", "c", "a/b", "b/c", "a/b/c", "d", "a/b/c/x", "d/e"}

\* filter_config.py: each compiled regex is the set of paths of FilterPaths
\* that re.match accepts, one set per rule, in the order of the list
WANT ==
    << {"base/BUILD.gn", "base/a.h", "base/b.h", "base/buildflags.h",
        "base/hash/md5_nacl.h", "base/win/b.h"},   \* base/((?!(third_party)/).*$)
       {},                       \* base/third_party/(dynamic_annotation|...)
       {},                       \* build/(android/(...)|[^/]*\.(h|py)$)
       {},                       \* mojo/
       {},                       \* dbus/
       {},                       \* ipc/.*(\.cc|\.h|\.mojom)$
       {},                       \* ui/gfx/(gfx_export.h|geometry|range)
       {},                       \* testing/[^/]*\.(cc|h)$
       {"third_party/ply/x.py"}, \* third_party/(jinja2|markupsafe|ply)
       {},                       \* components/(json_schema|...)
       {},                       \* device/bluetooth/bluetooth_(...)
       {} >>                     \* device/bluetooth/bluez/...

WANT_EXCLUDE ==
    << {"base/BUILD.gn"},        \* (.*/)?BUILD.gn$
       {},                       \* (.*/)?PRESUBMIT.py$
       {},                       \* (.*/)?OWNERS$
       {},                       \* (.*/)?SECURITY_OWNERS$
       {},                       \* (.*/)?DEPS$
       {},                       \* base/android/.../BuildConfig.java
       {"base/win/b.h"},         \* base/(.*/)?(ios|win|...|nacl)/.*
       {"base/hash/md5_nacl.h"}, \* .*_(ios|win|...|nacl)[_./]
       {},                       \* .*/(ios|win|...|nacl)_
       {} >>                     \* dbus/(test_serv(er|ice)\.cc|...)$

ALWAYS_WANT ==
    << {"base/hash/md5_nacl.h"} >>   \* base/hash/(md5|sha1)_nacl\.(h|cc)$

KEEP ==
    << {"Android.bp", "third_party/ply/x.py"},   \* (Android.bp|...|third_party)(/.*)?$
       {"Android.bp", "unrelated_local_file", "unrelated_upstream_file",
        "a", "b", "c", "d"},     \* [^/]*$
       {"base/buildflags.h"},    \* .*buildflags.h
       {},                       \* base/android/.../BuildConfig.java
       {},                       \* testing/(gmock|gtest)/
       {} >>                     \* base/third_party/(libevent|symbolize)

KEEP_EXCLUDE ==
    << {"third_party/ply/x.py"} >>   \* third_party/(jinja2|markupsafe|ply)

\* main(): filters.Filter(WANT, WANT_EXCLUDE, KEEP, KEEP_EXCLUDE)
libchrome_filter ==
    [want |-> WANT, want_excluded |-> WANT_EXCLUDE,
     keep |-> KEEP, keep_excluded |-> KEEP_EXCLUDE]

\* no Filter method has been called
NoCall == [fn |-> "none"]

\* the filters library when the specification is about another subsystem
FiltersIdle ==
    /\ rules = <<>>
    /\ arg_our_files = <<>>
    /\ arg_upstream_files = <<>>
    /\ filter_call = NoCall

\* hash() has not been called since the last edit (a hash that was
\* returned is kept as a one-element sequence)
NoHash == <<>>

\* the lazy tree when the specification is about another subsystem
LazyTreeIdle ==
    /\ root_treehash = <<>>
    /\ operations = <<>>
    /\ git_lazytree = <<>>
    /\ hash_returned = NoHash

\* failed_matrix has not been called since the last set_failed
NoMatrix == [raised |-> "not called"]

\* the State when the specification is about another subsystem
StateIdle ==
    /\ state_failed = <<>>
    /\ matrix_returned = NoMatrix

\* process_commits on a long range when the specification is about another
\* subsystem
VerifyIdle ==
    /\ commit_range = <<>>
    /\ verify_loop = <<>>
    /\ verify_calls = <<>>

\* update_upstream.py when the specification is about another subsystem
UpdateIdle ==
    /\ args = <<>>
    /\ cros_upstream = <<>>
    /\ cursor_files = <<>>
    /\ update_main = <<>>
    /\ stages = <<>>

LibraryIdle ==
    FiltersIdle /\ LazyTreeIdle /\ StateIdle /\ VerifyIdle /\ UpdateIdle

(***************************************************************************)
(* The browser repository: commit hash -> metadata, and the order in which *)
(* git lists the commits (parents before children).                        *)
(***************************************************************************)
Authors ==
    << [name |-> "alice", email |-> "alice@chromium.org",
        time |-> "1600000000", timezone |-> "+0900"],
       [name |-> "bob", email |-> "bob@chromium.org",
        time |-> "1600000100", timezone |-> "-0700"] >>

Titles ==
    <<"Add files", "Update", "Revert", "Cleanup", "Reland", "Roll", "Fix",
      "Merge", "Tidy">>

A1 == GitFile("base/a.h", 1)
A2 == GitFile("base/a.h", 2)
B1 == GitFile("base/b.h", 1)
B2 == GitFile("base/b.h", 2)
W1 == GitFile("base/win/b.h", 1)
W2 == GitFile("base/win/b.h", 2)

Commit(n, parents, tree) ==
    [parents    |-> parents,
     tree       |-> tree,
     authorship |-> Authors[1 + (n % 2)],
     message    |-> <<Titles[n]>>]

Order6 == <<"c1", "c2", "c3", "c4", "c5", "c6">>

\* add, replace, revert, delete, an unwanted change, add
H_Linear ==
    [order |-> Order6,
     meta  |-> [c \in Range(Order6) |->
        CASE c = "c1" -> Commit(1, <<>>, {A1, W1})
          [] c = "c2" -> Commit(2, <<"c1">>, {A2, W1})
          [] c = "c3" -> Commit(3, <<"c2">>, {A1, W1})
          [] c = "c4" -> Commit(4, <<"c3">>, {W1})
          [] c = "c5" -> Commit(5, <<"c4">>, {W2})
          [] c = "c6" -> Commit(6, <<"c5">>, {W2, B1})]]

\* an unwanted change, then a wanted file added and reverted, then another
\* unwanted change
H_Revert ==
    [order |-> Order6,
     meta  |-> [c \in Range(Order6) |->
        CASE c = "c1" -> Commit(1, <<>>, {B1})
          [] c = "c2" -> Commit(2, <<"c1">>, {B1, W1})
          [] c = "c3" -> Commit(3, <<"c2">>, {B1, W1, A1})
          [] c = "c4" -> Commit(4, <<"c3">>, {B1, W1})
          [] c = "c5" -> Commit(5, <<"c4">>, {B1, W2})
          [] c = "c6" -> Commit(6, <<"c5">>, {B2, W2})]]

\* two branches that change unwanted files only, and their merge
H_MergeEmpty ==
    [order |-> Order6,
     meta  |-> [c \in Range(Order6) |->
        CASE c = "c1" -> Commit(1, <<>>, {A1})
          [] c = "c2" -> Commit(2, <<"c1">>, {A1, W1})
          [] c = "c3" -> Commit(3, <<"c1">>, {A1, W2})
          [] c = "c4" -> Commit(4, <<"c2", "c3">>, {A1, W2})
          [] c = "c5" -> Commit(5, <<"c4">>, {A1})
          [] c = "c6" -> Commit(6, <<"c5">>, {A2})]]

\* a wanted file added (c3) and reverted (c4), with a branch (c5) that
\* starts from the commit that added it
H_Fork ==
    [order |-> Order6,
     meta  |-> [c \in Range(Order6) |->
        CASE c = "c1" -> Commit(1, <<>>, {B1})
          [] c = "c2" -> Commit(2, <<"c1">>, {B1, W1})
          [] c = "c3" -> Commit(3, <<"c2">>, {B1, W1, A1})
          [] c = "c4" -> Commit(4, <<"c3">>, {B1, W1})
          [] c = "c5" -> Commit(5, <<"c3">>, {B2, W1, A1})
          [] c = "c6" -> Commit(6, <<"c4", "c5">>, {B2, W1})]]

\* two branches that both change wanted files, and their merge
H_Diamond ==
    [order |-> Order6,
     meta  |-> [c \in Range(Order6) |->
        CASE c = "c1" -> Commit(1, <<>>, {A1})
          [] c = "c2" -> Commit(2, <<"c1">>, {A2})
          [] c = "c3" -> Commit(3, <<"c1">>, {A1, B1})
          [] c = "c4" -> Commit(4, <<"c2", "c3">>, {A2, B1})
          [] c = "c5" -> Commit(5, <<"c4">>, {A2, B1, W1})
          [] c = "c6" -> Commit(6, <<"c5">>, {A2})]]

\* a root commit without any wanted file, and a second root
H_Roots ==
    [order |-> Order6,
     meta  |-> [c \in Range(Order6) |->
        CASE c = "c1" -> Commit(1, <<>>, {W1})
          [] c = "c2" -> Commit(2, <<"c1">>, {W1, A1})
          [] c = "c3" -> Commit(3, <<"c2">>, {W2, A1})
          [] c = "c4" -> Commit(4, <<>>, {B1})
          [] c = "c5" -> Commit(5, <<"c3", "c4">>, {W2, A1, B1})
          [] c = "c6" -> Commit(6, <<"c5">>, {W1, A1, B1})]]

\* a wanted file added (c2) and reverted (c3) right after the first commit,
\* then an unwanted file added (c4), then the reland
H_Window ==
    [order |-> Order6,
     meta  |-> [c \in Range(Order6) |->
        CASE c = "c1" -> Commit(1, <<>>, {B1})
          [] c = "c2" -> Commit(2, <<"c1">>, {B1, A1})
          [] c = "c3" -> Commit(3, <<"c2">>, {B1})
          [] c = "c4" -> Commit(4, <<"c3">>, {B1, W1})
          [] c = "c5" -> Commit(5, <<"c4">>, {B1, W1, A1})
          [] c = "c6" -> Commit(6, <<"c5">>, {B2, W1, A1})]]

\* an unwanted change (c2) between two wanted ones, and a branch (c4) that
\* starts from the unwanted change and is merged (c5)
H_Branch ==
    [order |-> Order6,
     meta  |-> [c \in Range(Order6) |->
        CASE c = "c1" -> Commit(1, <<>>, {A1})
          [] c = "c2" -> Commit(2, <<"c1">>, {A1, W1})
          [] c = "c3" -> Commit(3, <<"c2">>, {A2, W1})
          [] c = "c4" -> Commit(4, <<"c2">>, {A1, W1, B1})
          [] c = "c5" -> Commit(5, <<"c3", "c4">>, {A2, W1, B1})
          [] c = "c6" -> Commit(6, <<"c5">>, {A2, W1, B2})]]

Order9 == Order6 \o <<"c7", "c8", "c9">>

\* two branches merged (c4), then a branch of unwanted changes (c5, c7)
\* that starts from the first commit, listed in turn with wanted changes on
\* top of the merge (c6, c9), and the merge of the two (c8)
H_Cross ==
    [order |-> Order9,
     meta  |-> [c \in Range(Order9) |->
        CASE c = "c1" -> Commit(1, <<>>, {B1})
          [] c = "c2" -> Commit(2, <<"c1">>, {A1, B1})
          [] c = "c3" -> Commit(3, <<"c1">>, {B2})
          [] c = "c4" -> Commit(4, <<"c2", "c3">>, {A1, B2})
          [] c = "c5" -> Commit(5, <<"c1">>, {B1, W1})
          [] c = "c6" -> Commit(6, <<"c4">>, {A2, B2})
          [] c = "c7" -> Commit(7, <<"c5">>, {B1, W2})
          [] c = "c8" -> Commit(8, <<"c6", "c7">>, {A1, B1, W2})
          [] c = "c9" -> Commit(9, <<"c6">>, {A2})]]

Histories ==
    {"linear", "revert", "merge_empty", "fork", "diamond", "roots", "window",
     "branch", "cross"}

History(name) ==
    CASE name = "linear" -> H_Linear
      [] name = "revert" -> H_Revert
      [] name = "merge_empty" -> H_MergeEmpty
      [] name = "fork" -> H_Fork
      [] name = "diamond" -> H_Diamond
      [] name = "roots" -> H_Roots
      [] name = "window" -> H_Window
      [] name = "branch" -> H_Branch
      [] name = "cross" -> H_Cross

(***************************************************************************)
(* Git plumbing (utils.py, filtered_utils.py) over the two repositories.   *)
(***************************************************************************)
Put(map, k, v) == [x \in DOMAIN map \cup {k} |-> IF x = k THEN v ELSE map[x]]

\* filtered_utils.get_metadata of a commit of the browser repository
get_metadata(commit) == History(upstream).meta[commit]

\* a commit of the browser repository and all its ancestors
RECURSIVE Ancestors(_)
Ancestors(commit) ==
    IF commit = None THEN {}
    ELSE {commit} \cup
         UNION {Ancestors(get_metadata(commit).parents[k]) :
                   k \in DOMAIN get_metadata(commit).parents}

\* utils.git_revlist(from, to): the ancestors of `to` that are no ancestors
\* of `from`, parents first
git_revlist(from_commit, to_commit) ==
    SelectSeq(History(upstream).order,
              LAMBDA c : c \in Ancestors(to_commit) \ Ancestors(from_commit))

\* the tree of a commit of the browser repository (None: the empty tree)
TreeOf(commit) == IF commit = None THEN {} ELSE get_metadata(commit).tree

\* utils.get_file_list
get_file_list(commit) == TreeFiles(TreeOf(commit))

\* utils.git_difftree
git_difftree(a, b) == DiffTrees(TreeOf(a), TreeOf(b))

\* filtered_utils.get_metadata(...).original_commits of a message: the value
\* of its trailing "CrOS-Libchrome-Original-Commit: <hash>" line
original_commits(message) ==
    LET n == Len(message)
    IN  IF /\ n >= 5
           /\ message[n - 4] = "\n\n"
           /\ message[n - 3] = CROS_LIBCHROME_ORIGINAL_COMMIT
           /\ message[n - 2] = ": "
           /\ message[n] = "\n"
        THEN <<message[n - 1]>>
        ELSE <<>>

\* a commit of the filtered repository and all its ancestors
RECURSIVE Reachable(_, _)
Reachable(objs, n) ==
    {n} \cup UNION {Reachable(objs, objs[n].parents[k]) :
                       k \in DOMAIN objs[n].parents}

\* filtered_utils.get_commits_map: what the annotations of the filtered
\* branch say, and ROOT for the synthetic initial commit
get_commits_map(objs, commit_hash) ==
    LET reach == Reachable(objs, commit_hash)
        origs == UNION {Range(original_commits(objs[n].message)) : n \in reach}
        roots == {n \in reach : objs[n].message = <<CROS_LIBCHROME_INITIAL_COMMIT>>}
        newest(S) == CHOOSE n \in S : \A m \in S : m <= n
    IN  [o \in origs \cup (IF roots = {} THEN {} ELSE {ROOT}) |->
            IF o = ROOT /\ roots # {}
            THEN newest(roots)
            ELSE newest({n \in reach : o \in Range(original_commits(objs[n].message))})]

\* git commit-tree
CommitTree(tree, parents, authorship, message) ==
    [tree |-> tree, parents |-> parents, authorship |-> authorship,
     message |-> message]

\* the identity git takes from its environment when none is given
Committer ==
    [name |-> "uprev", email |-> "uprev@chromium.org",
     date |-> <<"1700000000", " ", "+0000">>]

(***************************************************************************)
(* generate_filtered_tree.py                                               *)
(***************************************************************************)
\* get_start_commit_of_browser_tree: the first commit with an annotation on
\* the main line of the filtered branch, or NoCommit
RECURSIVE get_start_commit_of_browser_tree(_, _)
get_start_commit_of_browser_tree(objs, current) ==
    IF original_commits(objs[current].message) # <<>> THEN current
    ELSE IF objs[current].parents = <<>> THEN NoCommit
    ELSE get_start_commit_of_browser_tree(objs, objs[current].parents[1])

\* the while loop of find_filtered_commit: the key it stops at, or None when
\* its assertion fails
RECURSIVE FindLookFor(_, _)
RECURSIVE FindLookForParent(_, _)
FindLookFor(look_for, map) ==
    IF look_for \in DOMAIN map THEN look_for
    ELSE IF look_for = ROOT THEN None
    ELSE FindLookForParent(get_metadata(look_for).parents, map)

\* one turn of that loop: the assertion on the parents, then the new look_for
FindLookForParent(parents, map) ==
    IF Len(parents) > 1 THEN None
    ELSE FindLookFor(IF Len(parents) = 1 THEN parents[1] ELSE ROOT, map)

\* the end of find_filtered_commit, for the key look_for its loop stopped at
FoundAt(look_for, commit, map) ==
    IF look_for = None
    THEN [ok |-> FALSE, value |-> NoCommit, map |-> map]
    ELSE [ok |-> TRUE, value |-> map[look_for],
          map |-> Put(map, commit, map[look_for])]

\* find_filtered_commit: the value returned and the map as it leaves it
find_filtered_commit(commit, map) ==
    FoundAt(FindLookFor(commit, map), commit, map)

\* a do_commit that passes the first parent only
ParentsParameters_FirstOnly(parents, k, acc) ==
    IF parents = <<>> THEN acc
    ELSE [find_filtered_commit(parents[1], acc.map)
              EXCEPT !.value = << @ >>]

\* parents_parameters.append(find_filtered_commit(parent, commits_map))
AppendParent(acc, found) ==
    [ok |-> found.ok, value |-> Append(acc.value, found.value),
     map |-> found.map]

\* the loop of do_commit over meta.parents
RECURSIVE ParentsParameters(_, _, _)
ParentsParameters(parents, k, acc) ==
    IF ~acc.ok \/ k > Len(parents) THEN acc
    ELSE ParentsParameters(parents, k + 1,
            AppendParent(acc, find_filtered_commit(parents[k], acc.map)))

\* a message without the blank line before the annotation
CommitMessage_NoBlankLine(meta, name, commithash) ==
    meta.message \o <<"\n", name, ": ", commithash, "\n">>

\* do_commit: the message of the commit
CommitMessage(meta, name, commithash) ==
    meta.message \o <<"\n\n", name, ": ", commithash, "\n">>

\* do_commit: the commit made and the map as it leaves it
GitCommitTree(treehash, commithash, meta, name, pp) ==
    [ok |-> pp.ok, map |-> pp.map,
     commit |-> CommitTree(treehash, pp.value,
                   [name  |-> meta.authorship.name,
                    email |-> meta.authorship.email,
                    date  |-> <<meta.authorship.time, " ",
                                meta.authorship.timezone>>],
                   CommitMessage(meta, name, commithash))]

do_commit(treehash, commithash, meta, map, name) ==
    GitCommitTree(treehash, commithash, meta, name,
        ParentsParameters(meta.parents, 1,
                          [ok |-> TRUE, value |-> <<>>, map |-> map]))

\* verify_commit: whether its assertion holds
verify_commit(f, original_commit, new_tree) ==
    git_mktree(filter_files(f, <<>>, get_file_list(original_commit))) = new_tree

LookForwardInformation(idx, parent) ==
    [look_forward_until_index |-> idx, parent_commit_hash |-> parent]

\* a look-forward that would not count the merge commits of the window
check_look_forward_no_merge_count(pending, base_commit, base_commit_meta, look_forward_from, look_forward_cnt, ignore_until, map, f) ==
    IF look_forward_cnt = 0 THEN <<<<>>, 0>>
    ELSE IF look_forward_from < ignore_until THEN <<<<>>, ignore_until>>
    ELSE IF look_forward_from + look_forward_cnt >= Len(pending)
         THEN <<<<>>, ignore_until>>
    ELSE IF Len(filter_diff(f, git_difftree(
                    pending[look_forward_from + look_forward_cnt],
                    base_commit)).value) = 0
         THEN << <<LookForwardInformation(
                       look_forward_from + look_forward_cnt,
                       map[base_commit_meta.parents[1]])>>,
                 look_forward_from - 1 >>
         ELSE << <<LookForwardInformation(look_forward_from - 1, NoCommit)>>,
                 look_forward_from + look_forward_cnt >>

\* check_look_forward; <<>> is None, <<info>> a LookForwardInformation
check_look_forward(pending, base_commit, base_commit_meta, look_forward_from, look_forward_cnt, ignore_until, map, f) ==
    IF look_forward_cnt = 0 THEN <<<<>>, 0>>
    ELSE IF look_forward_from < ignore_until THEN <<<<>>, ignore_until>>
    ELSE IF look_forward_from + look_forward_cnt >= Len(pending)
         THEN <<<<>>, ignore_until>>
    ELSE
      LET merge_commit_count ==
              Cardinality({k \in (look_forward_from + 1)
                                 .. (look_forward_from + look_forward_cnt) :
                             Len(get_metadata(pending[k]).parents) # 1})
          future_diff ==
              filter_diff(f, git_difftree(
                  pending[look_forward_from + look_forward_cnt],
                  base_commit)).value
      IN  IF Len(future_diff) = 0 /\ merge_commit_count = 0
          THEN << <<LookForwardInformation(
                        look_forward_from + look_forward_cnt,
                        map[base_commit_meta.parents[1]])>>,
                  look_forward_from - 1 >>
          ELSE << <<LookForwardInformation(look_forward_from - 1, NoCommit)>>,
                  look_forward_from + look_forward_cnt >>

\* applying a filtered diff to a lazy tree (process_commits, "Apply diff")
RECURSIVE ApplyDiff(_, _, _)
ApplyDiff(tree, diff, k) ==
    IF k > Len(diff) THEN tree
    ELSE ApplyDiff(
            IF diff[k].op \in {DiffOperations.ADD, DiffOperations.REP}
            THEN LazyTreeSet(tree, diff[k].file)
            ELSE IF diff[k].op = DiffOperations.DEL
                 THEN LazyTreeDel(tree, diff[k].file.path)
                 ELSE tree,
            diff, k + 1)

\* an elision test that forgets merges
NoMergeNoDiff_NoDiffOnly(meta, diff_with_parent) ==
    Len(diff_with_parent) = 0

\* process_commits: "not merge commit AND no diff"
NoMergeNoDiff(meta, diff_with_parent) ==
    Len(meta.parents) <= 1 /\ Len(diff_with_parent) = 0

\* the values an iteration of process_commits that raises leaves behind
Raised ==
    [kind |-> "raise", err |-> "AssertionError",
     objects |-> objects, commits_map |-> commits_map,
     last_commit |-> last_commit, last_verified |-> last_verified,
     look_forward_until |-> look_forward_until,
     ignore_look_forward_until |-> ignore_look_forward_until,
     committed |-> committed, verified |-> verified]

\* process_commits, "Skip commit": the map entry of the elided commit
ElidedMap(commit, meta, map) ==
    IF Len(meta.parents) = 1 /\ meta.parents[1] \in DOMAIN map
    THEN Put(map, commit, map[meta.parents[1]])
    ELSE map

\* process_commits, "Skip commit": what the iteration leaves behind, lf
\* being what check_look_forward returned
Elided(map, lf) ==
    [Raised EXCEPT !.kind = "elide", !.err = "", !.commits_map = map,
                   !.look_forward_until = lf[1],
                   !.ignore_look_forward_until = lf[2]]

\* process_commits, "Skip commit"
SkipCommit(commit, meta, map) ==
    Elided(map,
        IF Len(meta.parents) = 1 /\ meta.parents[1] \in DOMAIN map
        THEN check_look_forward(pending_commits, commit, meta, i,
                 look_forward, ignore_look_forward_until, map,
                 libchrome_filter)
        ELSE <<look_forward_until, ignore_look_forward_until>>)

\* process_commits from "Verify commit" to the end of the loop body, for
\* the commit made by do_commit
Committed(commit, filtered_commit, made, must_verify, passes) ==
    IF ~made.ok THEN [Raised EXCEPT !.commits_map = made.map]
    ELSE [kind |-> IF must_verify /\ ~passes THEN "raise" ELSE "emit",
          err  |-> IF must_verify /\ ~passes THEN "AssertionError" ELSE "",
          objects |-> Append(objects, made.commit),
          commits_map |-> Put(made.map, commit, filtered_commit),
          last_commit |-> filtered_commit,
          last_verified |-> IF must_verify THEN i ELSE last_verified,
          look_forward_until |-> look_forward_until,
          ignore_look_forward_until |-> ignore_look_forward_until,
          committed |-> Append(committed,
                          [orig |-> commit, new |-> filtered_commit,
                           run |-> runs]),
          verified |-> IF must_verify /\ passes
                       THEN verified \cup {commit} ELSE verified]

\* process_commits, "Apply diff and commit" for the tree after the diff
CommitAndVerify(commit, meta, map, treehash_after_diff_applied) ==
    Committed(commit, Len(objects) + 1,
        do_commit(treehash_after_diff_applied, commit, meta, map,
                  commit_hash_meta_name),
        Len(meta.parents) > 1 \/ i - last_verified >= _VERIFY_INTEGRITY_DISTANCE,
        verify_commit(libchrome_filter, commit, treehash_after_diff_applied))

\* the body of the loop of process_commits after the diff and the parent's
\* filtered commit are known
ProcessDiff(commit, meta, diff_with_parent, found) ==
    IF ~diff_with_parent.ok \/ ~found.ok THEN Raised
    ELSE IF NoMergeNoDiff(meta, diff_with_parent.value)
    THEN SkipCommit(commit, meta, ElidedMap(commit, meta, found.map))
    ELSE CommitAndVerify(commit, meta, found.map,
             ApplyDiff(IF meta.parents # <<>> THEN objects[found.value].tree
                       ELSE {},
                       diff_with_parent.value, 1))

\* the body of the loop of process_commits for a commit and its metadata
ProcessMeta(commit, meta) ==
    ProcessDiff(commit, meta,
        filter_diff(libchrome_filter,
            git_difftree(IF meta.parents # <<>> THEN meta.parents[1] ELSE None,
                         commit)),
        IF meta.parents # <<>>
        THEN find_filtered_commit(meta.parents[1], commits_map)
        ELSE [ok |-> TRUE, value |-> NoCommit, map |-> commits_map])

\* one iteration of the loop of process_commits for a commit that is not
\* skipped (from "meta = ..." to the end of the loop body): what happened
\* ("elide", "emit", or "raise" with the exception in err) and the values
\* the iteration leaves behind
ProcessCommit ==
    ProcessMeta(pending_commits[i], get_metadata(pending_commits[i]))

(***************************************************************************)
(* The rewriter as a state machine.                                        *)
(***************************************************************************)
\* the filtered repository before the tool has ever run: one commit of the
\* downstream project, without annotation
InitialObjects ==
    << CommitTree({}, <<>>, Committer, <<"Initial commit">>) >>

\* the orchestrator before it is started
OrchIdle ==
    /\ arg = <<>>
    /\ world = "none"
    /\ states = <<>>
    /\ failed = <<>>
    /\ work = <<>>
    /\ phase = 0
    /\ wk = 0
    /\ mpc = "idle"
    /\ tasks = <<>>
    /\ unfinished_emerges = {}
    /\ scan = <<>>
    /\ todo = <<>>
    /\ ever_failed = {}
    /\ invocations = <<>>
    /\ output_directory = <<>>
    /\ main_error = ""

\* the rewriter before main() is started, but for its inputs
RewriterStart ==
    /\ objects = InitialObjects
    /\ head = 1
    /\ runs = 0
    /\ pc = "idle"
    /\ pending_commits = <<>>
    /\ i = 1
    /\ commits_map = <<>>
    /\ last_commit = NoCommit
    /\ last_verified = -1
    /\ look_forward_until = <<>>
    /\ ignore_look_forward_until = 0
    /\ committed = <<>>
    /\ verified = {}
    /\ stdout = NoCommit
    /\ err = ""

\* the rewriter when it is not used
RewriterIdle ==
    /\ upstream = "linear"
    /\ look_forward = 0
    /\ commit_hash_meta_name = CROS_LIBCHROME_ORIGINAL_COMMIT
    /\ RewriterStart

RInit ==
    /\ upstream \in Histories
    /\ look_forward \in 0 .. MaxLookForward
    /\ commit_hash_meta_name \in
           {CROS_LIBCHROME_ORIGINAL_COMMIT, CROS_LIBCHROME_RECOVERED_FROM_COMMIT}
    /\ RewriterStart
    /\ OrchIdle
    /\ LibraryIdle

\* the upstream commit the filtered branch is anchored at (None: no anchor)
LastKnownOriginal(objs, last_known) ==
    IF last_known = NoCommit THEN None
    ELSE original_commits(objs[last_known].message)[1]

\* main(): the commit standing for ROOT is made when the map has none
WithRoot(objs, map, parent_filtered) ==
    IF ROOT \in DOMAIN map THEN [objects |-> objs, map |-> map]
    ELSE [objects |-> Append(objs,
                         CommitTree(git_mktree(<<>>), <<parent_filtered>>,
                             Committer, <<CROS_LIBCHROME_INITIAL_COMMIT>>)),
          map |-> Put(map, ROOT, Len(objs) + 1)]

\* main(): "if last_known and last_known.decode('ascii') != parent_filtered".
\* get_start_commit_of_browser_tree returns the str of the command line when
\* the head itself carries the annotation, and a str has no decode; a commit
\* below the head is bytes and never equal to the head, and the map entry of
\* its original commit is re-pointed to the head of the branch
Repointed(map, last_known, original, parent_filtered) ==
    IF last_known = NoCommit THEN [raised |-> "", map |-> map]
    ELSE IF last_known = parent_filtered
    THEN [raised |-> "AttributeError", map |-> map]
    ELSE IF original \notin DOMAIN map
    THEN [raised |-> "AssertionError", map |-> map]
    ELSE [raised |-> "", map |-> Put(map, original, parent_filtered)]

\* main() from the commits map to the pending commits (none when it raises
\* before utils.git_revlist)
Prepare(goal_browser, original, rooted, repointed) ==
    /\ objects' = rooted.objects
    /\ commits_map' = repointed.map
    /\ err' = repointed.raised
    /\ pc' = IF repointed.raised = "" THEN "loop" ELSE "crashed"
    /\ pending_commits' = IF repointed.raised = ""
                          THEN git_revlist(original, goal_browser)
                          ELSE <<>>

\* main() up to the first iteration of process_commits, for the filtered
\* branch head and the goal goal_browser
Main(goal_browser) ==
    /\ pc \in {"idle", "done", "crashed"}
    /\ runs < MaxRuns
    /\ \E last_known \in {get_start_commit_of_browser_tree(objects, head)} :
       \E rooted \in {WithRoot(objects, get_commits_map(objects, head), head)} :
           Prepare(goal_browser, LastKnownOriginal(objects, last_known),
                   rooted,
                   Repointed(rooted.map, last_known,
                             LastKnownOriginal(objects, last_known), head))
    /\ runs' = runs + 1
    /\ i' = 1
    /\ last_commit' = NoCommit
    /\ last_verified' = -1
    /\ look_forward_until' = <<>>
    /\ ignore_look_forward_until' = 0
    /\ stdout' = NoCommit
    /\ UNCHANGED <<upstream, head, look_forward, commit_hash_meta_name,
                   committed, verified>>
    /\ UNCHANGED <<ovars, lvars>>

\* the message of a commit made by hand on the filtered branch
LocalMessage == <<"Local change">>

\* the environment between two runs: a commit without annotation is made by
\* hand on top of the head that a run has printed (the case main() names
\* "some other commits are made after last_known")
LocalCommit ==
    /\ pc = "done"
    /\ runs < MaxRuns
    /\ original_commits(objects[head].message) # <<>>
    /\ objects' = Append(objects,
                         CommitTree(objects[head].tree, <<head>>, Committer,
                                    LocalMessage))
    /\ head' = Len(objects) + 1
    /\ UNCHANGED <<upstream, runs, pc, look_forward, commit_hash_meta_name,
                   pending_commits, i, commits_map, last_commit,
                   last_verified, look_forward_until,
                   ignore_look_forward_until, committed, verified, stdout,
                   err>>
    /\ UNCHANGED <<ovars, lvars>>

InLoop == pc = "loop" /\ i <= Len(pending_commits)

Skipping ==
    /\ look_forward_until # <<>>
    /\ i < look_forward_until[1].look_forward_until_index

\* process_commits: an iteration that look-forward skips
Skip ==
    /\ InLoop
    /\ Skipping
    /\ commits_map' = Put(commits_map, pending_commits[i],
                          look_forward_until[1].parent_commit_hash)
    /\ i' = i + 1
    /\ UNCHANGED <<upstream, objects, head, runs, pc, look_forward,
                   commit_hash_meta_name, pending_commits, last_commit,
                   last_verified, look_forward_until,
                   ignore_look_forward_until, committed, verified, stdout,
                   err>>
    /\ UNCHANGED <<ovars, lvars>>

Iterate(r) ==
    /\ objects' = r.objects
    /\ commits_map' = r.commits_map
    /\ last_commit' = r.last_commit
    /\ last_verified' = r.last_verified
    /\ look_forward_until' = r.look_forward_until
    /\ ignore_look_forward_until' = r.ignore_look_forward_until
    /\ committed' = r.committed
    /\ verified' = r.verified
    /\ err' = r.err
    /\ pc' = IF r.kind = "raise" THEN "crashed" ELSE "loop"
    /\ i' = IF r.kind = "raise" THEN i ELSE i + 1
    /\ UNCHANGED <<upstream, head, runs, look_forward, commit_hash_meta_name,
                   pending_commits, stdout>>
    /\ UNCHANGED <<ovars, lvars>>

\* process_commits: an iteration that makes no commit
Elide ==
    /\ InLoop
    /\ ~Skipping
    /\ \E r \in {ProcessCommit} : r.kind = "elide" /\ Iterate(r)

\* process_commits: an iteration that makes a commit, or raises
Emit ==
    /\ InLoop
    /\ ~Skipping
    /\ \E r \in {ProcessCommit} : r.kind # "elide" /\ Iterate(r)

\* process_commits after the loop ("Verify last commit", return), and the
\* print of main()
VerifyLast ==
    /\ pc = "loop"
    /\ i > Len(pending_commits)
    /\ \E raised \in
            {IF pending_commits = <<>> THEN "IndexError"
             ELSE IF last_commit = NoCommit THEN "TypeError"
             ELSE IF ~verify_commit(libchrome_filter, Last(pending_commits),
                                    objects[last_commit].tree)
                  THEN "AssertionError"
                  ELSE ""} :
           /\ err' = raised
           /\ pc' = IF raised = "" THEN "done" ELSE "crashed"
           /\ stdout' = IF raised = "" THEN last_commit ELSE NoCommit
           /\ head' = IF raised = "" THEN last_commit ELSE head
           /\ verified' = IF raised = "" THEN verified \cup {Last(pending_commits)}
                          ELSE verified
    /\ UNCHANGED <<upstream, objects, runs, look_forward,
                   commit_hash_meta_name, pending_commits, i, commits_map,
                   last_commit, last_verified, look_forward_until,
                   ignore_look_forward_until, committed>>
    /\ UNCHANGED <<ovars, lvars>>

RNext ==
    \/ \E goal_browser \in Range(History(upstream).order) : Main(goal_browser)
    \/ LocalCommit
    \/ Skip
    \/ Elide
    \/ Emit
    \/ VerifyLast

SpecRewriter == RInit /\ [][RNext]_vars

(***************************************************************************)
(* parallel_packages_checker.py                                            *)
(***************************************************************************)
_MAX_EMERGES == 32
_MAX_EMERGES_WITHOUT_UNITTEST == 50
_MAX_BUILD_PACKAGES == 3
\* build_packages: "for trial in range(3)"
BuildPackagesTrials == 3

\* argparse's namespace; 0 stands for an integer option that is not given
\* (the code tests the option's truth, so 0 and "not given" are the same)
Namespace(skip_setup_board, skip_first_pass_build_packages, max_build_packages, max_emerges) ==
    [unittest |-> FALSE,
     skip_setup_board |-> skip_setup_board,
     skip_first_pass_build_packages |-> skip_first_pass_build_packages,
     max_build_packages |-> max_build_packages,
     max_emerges |-> max_emerges]

\* the command lines tried; all pass the assertions of main()
CommandLines ==
    { Namespace(FALSE, FALSE, 0, 0),
      Namespace(FALSE, FALSE, 1, 1),
      Namespace(TRUE, FALSE, 0, 2),
      Namespace(TRUE, TRUE, 2, 1) }

\* ---- the chroot: boards, and what equery-$BOARD d <package> prints ----
\* a line of equery: $group/$pkg, then the version and revision suffixes
EqueryLine(name) == <<name, "-0.0.1", "-r1">>

\* in "empty" equery lists nothing and exits with 0; in "broken" it prints
\* nothing and exits with 1
Worlds ==
    {"chain", "reverse", "cycle", "independent", "empty", "broken",
     "versions"}

\* proc.returncode of equery-$BOARD
equery_returncode == IF world = "broken" THEN 1 ELSE 0

\* arg.boards
boards ==
    IF world = "independent" THEN <<"b1", "b2">> ELSE <<"b1">>

\* the packages equery lists as depending on package, on a board
equery(board, package) ==
    CASE world = "chain" /\ package = "libchrome" ->
             <<EqueryLine("A"), <<"B">>, <<"C", "-r7">> >>
      [] world = "chain" /\ package = "A" -> <<EqueryLine("B")>>
      [] world = "chain" /\ package = "B" -> <<EqueryLine("C")>>
      [] world = "reverse" /\ package = "libchrome" ->
             <<EqueryLine("Y"), EqueryLine("X"), EqueryLine("D")>>
      [] world = "reverse" /\ package = "D" -> <<EqueryLine("X")>>
      [] world = "reverse" /\ package = "X" -> <<EqueryLine("Y")>>
      [] world = "cycle" /\ package = "libchrome" ->
             <<EqueryLine("X"), EqueryLine("Y")>>
      [] world = "cycle" /\ package = "X" -> <<EqueryLine("Y")>>
      [] world = "cycle" /\ package = "Y" -> <<EqueryLine("X")>>
      [] world = "independent" /\ board = "b1" /\ package = "libchrome" ->
             <<EqueryLine("A"), EqueryLine("B")>>
      [] world = "independent" /\ board = "b2" /\ package = "libchrome" ->
             <<EqueryLine("A")>>
      [] world = "versions" /\ package = "libchrome" ->
             <<EqueryLine("A"), <<"A", "-0.0.2", "-r1">> >>
      [] OTHER -> <<>>

\* version_remove_re.match(line.split(' ')[0]).group(1)
version_remove(line) == line[1]

\* _list_depended_by
_list_depended_by(board, package) ==
    [k \in DOMAIN equery(board, package) |->
        version_remove(equery(board, package)[k])]

\* the keys of dict((p, ...) for p in packages), in insertion order
RECURSIVE DictKeys(_)
DictKeys(packages) ==
    IF packages = <<>> THEN <<>>
    ELSE IF Last(packages) \in Range(SubSeq(packages, 1, Len(packages) - 1))
         THEN DictKeys(SubSeq(packages, 1, Len(packages) - 1))
         ELSE Append(DictKeys(SubSeq(packages, 1, Len(packages) - 1)),
                     Last(packages))

\* _build_dependency_graph: package -> the packages it depends on; the
\* defaultdict gives [] for a package without an entry
_build_dependency_graph(board, packages) ==
    [x \in Range(packages) |->
        SelectSeq(DictKeys(packages),
                  LAMBDA p : x \in Range(_list_depended_by(board, p)))]

\* CheckOneBoard.__init__
CheckOneBoard ==
    [packages_to_verify |-> None, dependency_graph |-> None,
     scheduled_emerge |-> {}, completed_emerge |-> {},
     passing_emerge |-> {}, failed_emerge |-> {}]

\* State.update; ever_failed records that the board has been failed or bug
update(board, board_state) ==
    /\ states' = [states EXCEPT ![board] = board_state]
    /\ ever_failed' = IF board_state \in {"bug", "failed"}
                      THEN ever_failed \cup {board} ELSE ever_failed

already_failed(board) == states[board] \in {"bug", "failed"}

max_build_packages ==
    IF arg.max_build_packages # 0 THEN arg.max_build_packages
    ELSE _MAX_BUILD_PACKAGES

\* a pool size that ignores --max-emerges
max_emerges_default ==
    IF arg.unittest THEN _MAX_EMERGES ELSE _MAX_EMERGES_WITHOUT_UNITTEST

max_emerges ==
    IF arg.max_emerges # 0 THEN arg.max_emerges
    ELSE IF arg.unittest THEN _MAX_EMERGES ELSE _MAX_EMERGES_WITHOUT_UNITTEST

\* max_workers of the ThreadPoolExecutor of each block of main()
max_workers ==
    CASE phase = 1 -> 1
      [] phase = 2 -> max_build_packages
      [] OTHER -> max_emerges

\* the function each block of main() submits
PhaseFn ==
    CASE phase = 1 -> "setup_board"
      [] phase = 2 -> "build_packages"
      [] phase = 3 -> "emerge_libchrome"
      [] phase = 4 -> "build_dependency_graph"
      [] OTHER -> "emerge"

\* "if not arg.skip_setup_board", "if not arg.skip_first_pass_build_packages"
PhaseSkipped ==
    \/ phase = 1 /\ arg.skip_setup_board
    \/ phase = 2 /\ arg.skip_first_pass_build_packages

\* executor.submit: a future, and where its function stands
Future(board, fn, package) ==
    [board |-> board, fn |-> fn, package |-> package, st |-> "queued",
     pos |-> "", trial |-> 0, queried |-> 0, ret |-> None]

\* ---- buildable_packages ----
dependency_satisfied(w, package) ==
    \A dependency \in Range(w.dependency_graph[package]) :
        \/ dependency \notin Range(w.packages_to_verify)
        \/ dependency \in w.completed_emerge

pending_packages(w) ==
    SelectSeq(w.packages_to_verify,
              LAMBDA package :
                  package \notin w.scheduled_emerge \cup w.completed_emerge)

newly_buildable_packages(w) ==
    SelectSeq(pending_packages(w),
              LAMBDA package : dependency_satisfied(w, package))

\* buildable_packages after its loop, for the lists s the loop has built
buildable_packages(s, scheduled_emerge) ==
    IF s.newly_buildable_packages # <<>> THEN s.newly_buildable_packages
    ELSE IF scheduled_emerge # {} THEN <<>>
    ELSE IF s.pending_packages # <<>> THEN SubSeq(s.pending_packages, 1, 1)
    ELSE <<>>

\* ---- State.failed and the failed matrix ----
\* len() of the names of boards and packages
len(name) ==
    CASE name \in {"A", "B", "C", "D", "X", "Y"} -> 1
      [] name \in {"b1", "b2"} -> 2
      [] name = "eve" -> 3
      [] name = "SYSTEM" -> 6

\* the names of boards, ascending (the order of sorted())
BoardNames == <<"b1", "b2", "eve">>

\* State.set_failed: self.failed[board] = packages
set_failed(d, board, packages) ==
    IF \E k \in DOMAIN d : d[k][1] = board
    THEN [k \in DOMAIN d |->
             IF d[k][1] = board THEN <<board, packages>> ELSE d[k]]
    ELSE Append(d, <<board, packages>>)

\* sorted(self.failed.items())
sorted(d) ==
    SelectSeq([n \in DOMAIN BoardNames |->
                  IF \E k \in DOMAIN d : d[k][1] = BoardNames[n]
                  THEN d[CHOOSE k \in DOMAIN d : d[k][1] = BoardNames[n]]
                  ELSE <<>>],
              LAMBDA item : item # <<>>)

\* a field of a line of the matrix (the text between two delimiters):
\* some spaces, then a text
Field(spaces, text) == [spaces |-> spaces, text |-> text]

\* max(len(p) for p in packages)
MaxLen(packages) ==
    len(CHOOSE p \in packages : \A q \in packages : len(q) <= len(p))

\* a line of data of failed_matrix
DataLine(d, package, max_packages_len, align) ==
    <<Field(IF max_packages_len > len(package)
            THEN max_packages_len - len(package) ELSE 0, package)>>
    \o [k \in DOMAIN sorted(d) |->
           Field(IF align THEN len(sorted(d)[k][1]) - 1 ELSE 0,
                 IF package \in sorted(d)[k][2] THEN "X" ELSE " ")]

\* the lines of failed_matrix for its packages and max_packages_len; the
\* lines of data come in the order in which the set of packages is iterated
Matrix(d, packages, max_packages_len, align) ==
    [raised |-> "",
     header |-> <<Field(max_packages_len, "")>>
                \o (IF d = <<>> THEN <<Field(0, "")>>
                    ELSE [k \in DOMAIN d |-> Field(0, d[k][1])]),
     data   |-> {DataLine(d, package, max_packages_len, align) :
                    package \in packages}]

\* State.failed_matrix; max() of no packages raises ValueError
failed_matrix(d, delimiter, align) ==
    IF align /\ UNION {d[k][2] : k \in DOMAIN d} = {}
    THEN [raised |-> "ValueError"]
    ELSE [delimiter |-> delimiter] @@
         Matrix(d, UNION {d[k][2] : k \in DOMAIN d},
                IF align THEN MaxLen(UNION {d[k][2] : k \in DOMAIN d}) ELSE 0,
                align)

\* ---- the output directory ----
\* <log_dir>/<package>/emerge_log
EmergeLog(board, package) == <<"by-board", board, package, "emerge_log">>

\* <log_dir>/build_packages
BuildPackagesLog(board) == <<"by-board", board, "build_packages">>

\* shutil.rmtree(<log_dir>/<package>)
RemoveLog(board, package) ==
    [f \in DOMAIN output_directory \ {EmergeLog(board, package)} |->
        output_directory[f]]

\* the orders in which a set can be iterated
Orders(S) ==
    {o \in [1 .. Cardinality(S) -> S] :
        \A a, b \in 1 .. Cardinality(S) : o[a] = o[b] => a = b}

(***************************************************************************)
(* The orchestrator as a state machine: the main thread.                   *)
(***************************************************************************)
OInit ==
    /\ arg \in CommandLines
    /\ world \in Worlds
    /\ states = [b \in Range(boards) |-> "pending"]
    /\ failed = <<>>
    /\ work = [b \in Range(boards) |-> CheckOneBoard]
    /\ phase = 1
    /\ wk = 1
    /\ mpc = "submit"
    /\ tasks = <<>>
    /\ unfinished_emerges = {}
    /\ scan = <<>>
    /\ todo = <<>>
    /\ ever_failed = {}
    /\ invocations = [b \in Range(boards) |-> <<>>]
    /\ output_directory = <<>>
    /\ main_error = ""
    /\ RewriterIdle
    /\ LibraryIdle

\* Future.done()
Done(t) == tasks[t].st \in {"finished", "callback", "done"}

\* leaving a "with ThreadPoolExecutor" block and entering the next
NextPhase ==
    /\ phase' = phase + 1
    /\ wk' = 1
    /\ tasks' = <<>>
    /\ mpc' = IF phase = 4 THEN "wait" ELSE "submit"

\* a block of main() that the command line switches off
MainSkipPhase ==
    /\ mpc = "submit"
    /\ PhaseSkipped
    /\ NextPhase
    /\ UNCHANGED <<arg, world, invocations, output_directory, main_error,
                   states, failed, work, unfinished_emerges,
                   scan, todo, ever_failed>>
    /\ UNCHANGED <<rvars, lvars>>

\* "if already_failed(state, work): continue" in the first four blocks
MainContinue ==
    /\ mpc = "submit"
    /\ ~PhaseSkipped
    /\ wk <= Len(boards)
    /\ already_failed(boards[wk])
    /\ wk' = wk + 1
    /\ UNCHANGED <<arg, world, invocations, output_directory, main_error, states, failed, work, phase, mpc, tasks,
                   unfinished_emerges, scan, todo, ever_failed>>
    /\ UNCHANGED <<rvars, lvars>>

\* a submit that would record a state of its own for the queued function
MainSubmit_queued ==
    /\ mpc = "submit"
    /\ ~PhaseSkipped
    /\ wk <= Len(boards)
    /\ ~already_failed(boards[wk])
    /\ IF phase \in {2, 3} THEN update(boards[wk], "queued")
       ELSE UNCHANGED <<states, ever_failed>>
    /\ tasks' = Append(tasks, Future(boards[wk], PhaseFn, None))
    /\ wk' = wk + 1
    /\ UNCHANGED <<arg, world, invocations, output_directory, main_error, failed, work, phase, mpc, unfinished_emerges,
                   scan, todo>>
    /\ UNCHANGED <<rvars, lvars>>

\* executor.submit and add_done_callback in the first four blocks
MainSubmit ==
    /\ mpc = "submit"
    /\ ~PhaseSkipped
    /\ wk <= Len(boards)
    /\ ~already_failed(boards[wk])
    /\ IF phase \in {2, 3} THEN update(boards[wk], "waiting")
       ELSE UNCHANGED <<states, ever_failed>>
    /\ tasks' = Append(tasks, Future(boards[wk], PhaseFn, None))
    /\ wk' = wk + 1
    /\ UNCHANGED <<arg, world, invocations, output_directory, main_error, failed, work, phase, mpc, unfinished_emerges,
                   scan, todo>>
    /\ UNCHANGED <<rvars, lvars>>

\* the end of a block that would not wait for its futures
MainShutdown_no_wait ==
    /\ mpc = "submit"
    /\ ~PhaseSkipped
    /\ wk > Len(boards)
    /\ NextPhase
    /\ UNCHANGED <<arg, world, invocations, output_directory, main_error,
                   states, failed, work, unfinished_emerges,
                   scan, todo, ever_failed>>
    /\ UNCHANGED <<rvars, lvars>>

\* the end of a "with" block: shutdown(wait=True)
MainShutdown ==
    /\ mpc = "submit"
    /\ ~PhaseSkipped
    /\ wk > Len(boards)
    /\ \A t \in DOMAIN tasks : tasks[t].st = "done"
    /\ NextPhase
    /\ UNCHANGED <<arg, world, invocations, output_directory, main_error,
                   states, failed, work, unfinished_emerges,
                   scan, todo, ever_failed>>
    /\ UNCHANGED <<rvars, lvars>>

\* the head of the loop of the last block: concurrent.futures.wait with
\* FIRST_COMPLETED, when there is a future to wait for
MainWait ==
    /\ mpc = "wait"
    /\ unfinished_emerges = {} \/ \E t \in unfinished_emerges : Done(t)
    /\ unfinished_emerges' = {t \in unfinished_emerges : ~Done(t)}
    /\ mpc' = "scan"
    /\ wk' = 1
    /\ UNCHANGED <<arg, world, invocations, output_directory, main_error, states, failed, work, phase, tasks, scan,
                   todo, ever_failed>>
    /\ UNCHANGED <<rvars, lvars>>

\* "if already_failed(state, work): continue" in the last block
MainContinueEmerge ==
    /\ mpc = "scan"
    /\ wk <= Len(boards)
    /\ already_failed(boards[wk])
    /\ wk' = wk + 1
    /\ UNCHANGED <<arg, world, invocations, output_directory, main_error, states, failed, work, phase, mpc, tasks,
                   unfinished_emerges, scan, todo, ever_failed>>
    /\ UNCHANGED <<rvars, lvars>>

\* buildable_packages: its loop over packages_to_verify
MainScan ==
    /\ mpc = "scan"
    /\ wk <= Len(boards)
    /\ ~already_failed(boards[wk])
    /\ scan' = [newly_buildable_packages |->
                    newly_buildable_packages(work[boards[wk]]),
                pending_packages |-> pending_packages(work[boards[wk]])]
    /\ mpc' = "decide"
    /\ UNCHANGED <<arg, world, invocations, output_directory, main_error, states, failed, work, phase, wk, tasks,
                   unfinished_emerges, todo, ever_failed>>
    /\ UNCHANGED <<rvars, lvars>>

\* buildable_packages: what it returns, scheduled_emerge being read now
MainDecide ==
    /\ mpc = "decide"
    /\ todo' = buildable_packages(scan, work[boards[wk]].scheduled_emerge)
    /\ scan' = <<>>
    /\ mpc' = "submit_emerge"
    /\ UNCHANGED <<arg, world, invocations, output_directory, main_error, states, failed, work, phase, wk, tasks,
                   unfinished_emerges, ever_failed>>
    /\ UNCHANGED <<rvars, lvars>>

\* set_emerge_scheduled, executor.submit, add_done_callback,
\* unfinished_emerges.add for the next package of the list
MainSubmitEmerge ==
    /\ mpc = "submit_emerge"
    /\ todo # <<>>
    /\ work' = [work EXCEPT ![boards[wk]].scheduled_emerge =
                                @ \cup {Head(todo)}]
    /\ update(boards[wk], "emerge")
    /\ tasks' = Append(tasks, Future(boards[wk], "emerge", Head(todo)))
    /\ unfinished_emerges' = unfinished_emerges \cup {Len(tasks) + 1}
    /\ todo' = Tail(todo)
    /\ UNCHANGED <<arg, world, invocations, output_directory, main_error, failed, phase, wk, mpc, scan>>
    /\ UNCHANGED <<rvars, lvars>>

\* the end of "for package in work.buildable_packages()"
MainNextWork ==
    /\ mpc = "submit_emerge"
    /\ todo = <<>>
    /\ wk' = wk + 1
    /\ mpc' = "scan"
    /\ UNCHANGED <<arg, world, invocations, output_directory, main_error, states, failed, work, phase, tasks,
                   unfinished_emerges, scan, todo, ever_failed>>
    /\ UNCHANGED <<rvars, lvars>>

\* "if not unfinished_emerges: break"
MainLoopEnd ==
    /\ mpc = "scan"
    /\ wk > Len(boards)
    /\ mpc' = IF unfinished_emerges = {} THEN "exit" ELSE "wait"
    /\ UNCHANGED <<arg, world, invocations, output_directory, main_error, states, failed, work, phase, wk, tasks,
                   unfinished_emerges, scan, todo, ever_failed>>
    /\ UNCHANGED <<rvars, lvars>>

\* the end of the last "with" block: shutdown(wait=True)
MainShutdownEmerge ==
    /\ mpc = "exit"
    /\ \A t \in DOMAIN tasks : tasks[t].st = "done"
    /\ mpc' = "report"
    /\ wk' = 1
    /\ UNCHANGED <<arg, world, invocations, output_directory, main_error, states, failed, work, phase, tasks,
                   unfinished_emerges, scan, todo, ever_failed>>
    /\ UNCHANGED <<rvars, lvars>>

\* state.set_failed for each board
MainReport ==
    /\ mpc = "report"
    /\ wk <= Len(boards)
    /\ failed' = set_failed(failed, boards[wk],
                     IF already_failed(boards[wk]) THEN {"SYSTEM"}
                     ELSE work[boards[wk]].failed_emerge)
    /\ wk' = IF wk = Len(boards) THEN 1 ELSE wk + 1
    /\ mpc' = IF wk = Len(boards) THEN "copy" ELSE "report"
    /\ UNCHANGED <<arg, world, invocations, output_directory, main_error, states, work,
                   phase, tasks, unfinished_emerges, scan, todo, ever_failed>>
    /\ UNCHANGED <<rvars, lvars>>

\* "for board, packages in state.failed.items()": the next item, and the
\* order in which "for package in packages" goes through the set.  (main()
\* has "if state.failed" before; the dict has an entry for every board.)
MainCopyBoard ==
    /\ mpc = "copy"
    /\ wk <= Len(failed)
    /\ todo' \in Orders(failed[wk][2])
    /\ mpc' = "copy_package"
    /\ UNCHANGED <<arg, world, invocations, output_directory, main_error, states, failed,
                   work, phase, wk, tasks, unfinished_emerges, scan,
                   ever_failed>>
    /\ UNCHANGED <<rvars, lvars>>

\* os.makedirs and shutil.copy of the emerge_log of a failed package;
\* shutil.copy raises FileNotFoundError when there is no such log
MainCopyPackage ==
    /\ mpc = "copy_package"
    /\ todo # <<>>
    /\ IF EmergeLog(failed[wk][1], Head(todo)) \in DOMAIN output_directory
       THEN /\ output_directory' = Put(output_directory,
                            <<"by-packages", Head(todo), failed[wk][1]>>,
                            output_directory[EmergeLog(failed[wk][1], Head(todo))])
            /\ todo' = Tail(todo)
            /\ UNCHANGED <<mpc, main_error>>
       ELSE /\ output_directory' = Put(output_directory, <<"by-packages", Head(todo)>>, "directory")
            /\ main_error' = "FileNotFoundError"
            /\ mpc' = "end"
            /\ todo' = <<>>
    /\ UNCHANGED <<arg, world, invocations, states, failed, work, phase, wk,
                   tasks, unfinished_emerges, scan, ever_failed>>
    /\ UNCHANGED <<rvars, lvars>>

\* the end of "for package in packages"
MainCopyNext ==
    /\ mpc = "copy_package"
    /\ todo = <<>>
    /\ wk' = wk + 1
    /\ mpc' = "copy"
    /\ UNCHANGED <<arg, world, invocations, output_directory, main_error, states, failed,
                   work, phase, tasks, unfinished_emerges, scan, todo,
                   ever_failed>>
    /\ UNCHANGED <<rvars, lvars>>

\* print(state.failed_matrix(...)), and the writes of matrix.txt and
\* matrix.csv
MainMatrix ==
    /\ mpc = "copy"
    /\ wk > Len(failed)
    /\ IF failed_matrix(failed, "     ", TRUE).raised # ""
       THEN /\ main_error' = failed_matrix(failed, "     ", TRUE).raised
            /\ UNCHANGED output_directory
       ELSE /\ output_directory' = Put(Put(output_directory, <<"matrix.txt">>,
                                failed_matrix(failed, "     ", TRUE)),
                            <<"matrix.csv">>, failed_matrix(failed, ",", TRUE))
            /\ UNCHANGED main_error
    /\ mpc' = "end"
    /\ UNCHANGED <<arg, world, invocations, states, failed, work, phase, wk,
                   tasks, unfinished_emerges, scan, todo, ever_failed>>
    /\ UNCHANGED <<rvars, lvars>>

(***************************************************************************)
(* The orchestrator as a state machine: the worker threads.                *)
(***************************************************************************)
\* the work items a worker thread is busy with (a thread runs the done
\* callbacks of a future before it takes the next item)
Busy ==
    {t \in DOMAIN tasks : tasks[t].st \in {"running", "finished", "callback"}}

Running(t, pos) == tasks[t].st = "running" /\ tasks[t].pos = pos

\* an external tool has exited for the board of a work item
Exited(t, tool, returncode) ==
    invocations' = [invocations EXCEPT ![tasks[t].board] =
                                           Append(@, <<tool, returncode>>)]

\* the future of a function that has returned, after handle_exception's
\* callback, which does nothing for it
Returned(t) ==
    [tasks EXCEPT ![t].st = "done", ![t].pos = "", ![t].trial = 0,
                  ![t].queried = 0]

\* the future of a function that has raised, before its done callbacks
Failing(t) ==
    [tasks EXCEPT ![t].st = "finished", ![t].pos = "", ![t].trial = 0,
                  ![t].queried = 0, ![t].ret = "exception"]

\* what the worker leaves alone
WorkerFrame ==
    /\ UNCHANGED <<arg, world, failed, phase, wk, mpc, unfinished_emerges,
                   scan, todo, main_error>>
    /\ UNCHANGED <<rvars, lvars>>

\* a worker thread that has taken a work item runs the function up to its
\* first external command; emerge makes <log_dir>/<package> and opens
\* (creates or truncates) its emerge_log before it runs the command.  The
\* threads take the items oldest first, and a thread that holds a later item
\* may run before a thread that holds an earlier one: the items the threads
\* that are not busy may hold are the oldest queued ones, one for each
RunTask(t) ==
    /\ tasks[t].st = "queued"
    /\ Cardinality(Busy)
         + Cardinality({u \in DOMAIN tasks :
                          tasks[u].st = "queued" /\ u < t}) < max_workers
    /\ tasks' = [tasks EXCEPT ![t].st = "running",
                    ![t].pos = CASE tasks[t].fn = "setup_board" -> "setup_board"
                                 [] tasks[t].fn = "build_packages" -> "_cros_workon"
                                 [] tasks[t].fn = "emerge_libchrome" -> "_cros_workon"
                                 [] tasks[t].fn = "build_dependency_graph" -> "_list_depended_by"
                                 [] OTHER -> "emerge"]
    /\ IF tasks[t].fn = "emerge" THEN UNCHANGED <<states, ever_failed>>
       ELSE update(tasks[t].board,
                CASE tasks[t].fn = "setup_board" -> "setup_board"
                  [] tasks[t].fn = "build_packages" -> "cros_workon_stop"
                  [] tasks[t].fn = "emerge_libchrome" -> "cros_workon_start"
                  [] OTHER -> "enumerate_dependencies")
    /\ UNCHANGED work
    /\ UNCHANGED invocations
    /\ output_directory' =
           IF tasks[t].fn = "emerge"
           THEN Put(output_directory,
                    EmergeLog(tasks[t].board, tasks[t].package), "emerge_log")
           ELSE output_directory
    /\ WorkerFrame

\* setup_board from proc.wait()
setup_board(t, returncode) ==
    /\ Running(t, "setup_board")
    /\ update(tasks[t].board,
              IF returncode # 0 THEN "failed" ELSE "setup_board")
    /\ tasks' = Returned(t)
    /\ UNCHANGED work
    /\ Exited(t, "setup_board", returncode)
    /\ UNCHANGED output_directory
    /\ WorkerFrame

\* _cros_workon from subprocess.run, and the caller up to its next command
_cros_workon(t, returncode) ==
    /\ Running(t, "_cros_workon")
    /\ IF returncode # 0
       THEN /\ update(tasks[t].board, "failed")
            /\ tasks' = Returned(t)
       ELSE IF tasks[t].fn = "build_packages"
       THEN /\ update(tasks[t].board, "build_packages")
            /\ tasks' = [tasks EXCEPT ![t].pos = "_build_packages"]
       ELSE /\ update(tasks[t].board, "emerge_libchrome")
            /\ tasks' = [tasks EXCEPT ![t].pos = "_emerge_blocking"]
    /\ UNCHANGED work
    /\ Exited(t, IF tasks[t].fn = "build_packages" THEN "cros_workon_stop"
                  ELSE "cros_workon_start", returncode)
    /\ UNCHANGED output_directory
    /\ WorkerFrame

\* build_packages without the break: the loop runs its three trials
_build_packages_no_break(t, returncode, opened) ==
    /\ Running(t, "_build_packages")
    /\ IF returncode # 0 /\ ~opened
       THEN /\ UNCHANGED <<states, ever_failed>>
            /\ tasks' = Failing(t)
       ELSE /\ update(tasks[t].board,
                      IF returncode # 0 THEN "failed" ELSE "build_packages")
            /\ tasks' = IF tasks[t].trial + 1 < BuildPackagesTrials
                        THEN [tasks EXCEPT ![t].pos = "build_packages",
                                           ![t].trial = @ + 1]
                        ELSE Returned(t)
    /\ UNCHANGED work
    /\ Exited(t, "build_packages", returncode)
    /\ output_directory' =
           IF returncode # 0 /\ opened
           THEN Put(output_directory, BuildPackagesLog(tasks[t].board),
                    "build_packages")
           ELSE output_directory
    /\ WorkerFrame

\* _build_packages from proc.wait(), and build_packages when it gives up
\* or succeeds; the log is written when the command fails, and the rmtree
\* of a success leaves the file of an earlier trial where it is (rmtree of
\* a file fails, and errors are ignored).  The open() of the log may raise
\* (opened = FALSE): the state is not updated and the future gets the
\* exception
_build_packages(t, returncode, opened) ==
    /\ Running(t, "_build_packages")
    /\ IF returncode # 0 /\ ~opened
       THEN /\ UNCHANGED <<states, ever_failed>>
            /\ tasks' = Failing(t)
       ELSE IF returncode # 0
       THEN /\ update(tasks[t].board, "failed")
            /\ tasks' = IF tasks[t].trial + 1 < BuildPackagesTrials
                        THEN [tasks EXCEPT ![t].pos = "build_packages",
                                           ![t].trial = @ + 1]
                        ELSE Returned(t)
       ELSE /\ update(tasks[t].board, "build_packages")
            /\ tasks' = Returned(t)
    /\ UNCHANGED work
    /\ Exited(t, "build_packages", returncode)
    /\ output_directory' =
           IF returncode # 0 /\ opened
           THEN Put(output_directory, BuildPackagesLog(tasks[t].board),
                    "build_packages")
           ELSE output_directory
    /\ WorkerFrame

\* build_packages: the next trial, up to its command
build_packages(t) ==
    /\ Running(t, "build_packages")
    /\ update(tasks[t].board, "build_packages")
    /\ tasks' = [tasks EXCEPT ![t].pos = "_build_packages"]
    /\ UNCHANGED work
    /\ UNCHANGED invocations
    /\ UNCHANGED output_directory
    /\ WorkerFrame

\* _emerge_blocking('libchrome') from subprocess.run
_emerge_blocking(t, returncode) ==
    /\ Running(t, "_emerge_blocking")
    /\ update(tasks[t].board,
              IF returncode # 0 THEN "failed" ELSE "emerge_libchrome")
    /\ tasks' = Returned(t)
    /\ UNCHANGED work
    /\ Exited(t, "emerge_libchrome", returncode)
    /\ UNCHANGED output_directory
    /\ WorkerFrame

\* the equery of a work item that is running: the one for libchrome first,
\* then one for each entry of packages_to_verify
QueriedPackage(t) ==
    IF tasks[t].queried = 0 THEN "libchrome"
    ELSE work[tasks[t].board].packages_to_verify[tasks[t].queried]

\* build_dependency_graph from the exit of an equery to the start of the
\* next one, or to the return: packages_to_verify is assigned after the
\* first, dependency_graph after the last; outs.decode('utf-8') raises when
\* the output is not UTF-8 (decoded = FALSE)
build_dependency_graph(t, decoded) ==
    /\ Running(t, "_list_depended_by")
    /\ invocations' =
           [invocations EXCEPT ![tasks[t].board] =
               Append(@, <<"equery", equery_returncode, QueriedPackage(t)>>)]
    /\ IF ~decoded
       THEN /\ tasks' = [tasks EXCEPT ![t].st = "finished", ![t].pos = "",
                                      ![t].queried = 0,
                                      ![t].ret = "exception"]
            /\ UNCHANGED <<work, states, ever_failed>>
       ELSE LET packages ==
                    IF tasks[t].queried = 0
                    THEN _list_depended_by(tasks[t].board, "libchrome")
                    ELSE work[tasks[t].board].packages_to_verify
            IN  IF tasks[t].queried < Len(packages)
                THEN /\ work' = [work EXCEPT
                            ![tasks[t].board].packages_to_verify = packages]
                     /\ tasks' = [tasks EXCEPT ![t].queried = @ + 1]
                     /\ update(tasks[t].board, "enumerate_dependencies")
                ELSE /\ work' = [work EXCEPT ![tasks[t].board] =
                            [@ EXCEPT !.packages_to_verify = packages,
                                      !.dependency_graph =
                                          _build_dependency_graph(
                                              tasks[t].board, packages)]]
                     /\ tasks' = Returned(t)
                     /\ UNCHANGED <<states, ever_failed>>
    /\ UNCHANGED output_directory
    /\ WorkerFrame

\* a function of the first four blocks raises: the future gets the
\* exception; the done callbacks come after
Raise(t) ==
    /\ tasks[t].st = "running"
    /\ tasks[t].fn # "emerge"
    /\ tasks' = [tasks EXCEPT ![t].st = "finished", ![t].pos = "",
                              ![t].trial = 0, ![t].queried = 0,
                              ![t].ret = "exception"]
    /\ UNCHANGED <<states, ever_failed, work>>
    /\ UNCHANGED invocations
    /\ UNCHANGED output_directory
    /\ WorkerFrame

\* handle_exception's callback for a function that raised
handle_exception(t) ==
    /\ tasks[t].st = "finished"
    /\ tasks[t].fn # "emerge"
    /\ update(tasks[t].board, "bug")
    /\ tasks' = [tasks EXCEPT ![t].st = "done", ![t].ret = None]
    /\ UNCHANGED work
    /\ UNCHANGED invocations
    /\ UNCHANGED output_directory
    /\ WorkerFrame

\* the result of emerge: True after shutil.rmtree when emerge-$BOARD exits 0
\* (rmtree raises FileNotFoundError when another emerge of the package has
\* removed the directory), False when it exits non-zero, an exception when
\* subprocess.run raises
EmergeResult(t, ret) ==
    IF /\ ret = "True"
       /\ EmergeLog(tasks[t].board, tasks[t].package)
              \notin DOMAIN output_directory
    THEN "exception"
    ELSE ret

\* emerge from subprocess.run: the emerge_log that was opened before the
\* command is left where it is unless the command succeeds; the future gets
\* its result (or exception) and wakes the waiters; the done callbacks come
\* after
emerge(t, ret) ==
    /\ Running(t, "emerge")
    /\ output_directory' =
           IF EmergeResult(t, ret) = "True"
           THEN RemoveLog(tasks[t].board, tasks[t].package)
           ELSE output_directory
    /\ tasks' = [tasks EXCEPT ![t].st = "finished", ![t].pos = "",
                              ![t].ret = EmergeResult(t, ret)]
    /\ UNCHANGED <<states, ever_failed, work>>
    /\ UNCHANGED invocations
    /\ WorkerFrame

\* _handle_emerge_result, into set_emerge_pass / set_emerge_failed up to
\* completed_emerge.add(package); ret is False when the future holds an
\* exception
_handle_emerge_result(t) ==
    /\ tasks[t].st = "finished"
    /\ tasks[t].fn = "emerge"
    /\ work' = [work EXCEPT ![tasks[t].board].completed_emerge =
                                @ \cup {tasks[t].package}]
    /\ tasks' = [tasks EXCEPT ![t].st = "callback", ![t].pos = "add",
                     ![t].ret = IF @ = "True" THEN "True" ELSE "False"]
    /\ UNCHANGED <<states, ever_failed>>
    /\ UNCHANGED invocations
    /\ UNCHANGED output_directory
    /\ WorkerFrame

\* set_emerge_pass: passing_emerge.add(package); set_emerge_failed:
\* failed_emerge.add(package)
passing_or_failed_emerge_add(t) ==
    /\ tasks[t].st = "callback"
    /\ tasks[t].pos = "add"
    /\ work' = [work EXCEPT ![tasks[t].board] =
                   IF tasks[t].ret = "True"
                   THEN [@ EXCEPT !.passing_emerge = @ \cup {tasks[t].package}]
                   ELSE [@ EXCEPT !.failed_emerge = @ \cup {tasks[t].package}]]
    /\ tasks' = [tasks EXCEPT ![t].pos = "remove", ![t].ret = None]
    /\ UNCHANGED <<states, ever_failed>>
    /\ UNCHANGED invocations
    /\ UNCHANGED output_directory
    /\ WorkerFrame

\* set_emerge_pass / set_emerge_failed: scheduled_emerge.remove(package) and
\* _update_emerge_state; remove raises KeyError when the package is not in
\* the set, and the executor logs and drops what a callback raises
scheduled_emerge_remove(t) ==
    /\ tasks[t].st = "callback"
    /\ tasks[t].pos = "remove"
    /\ IF tasks[t].package \in work[tasks[t].board].scheduled_emerge
       THEN /\ work' = [work EXCEPT ![tasks[t].board].scheduled_emerge =
                                        @ \ {tasks[t].package}]
            /\ update(tasks[t].board, "emerge")
       ELSE UNCHANGED <<work, states, ever_failed>>
    /\ tasks' = [tasks EXCEPT ![t].st = "done", ![t].pos = ""]
    /\ UNCHANGED invocations
    /\ UNCHANGED output_directory
    /\ WorkerFrame

ONext ==
    \/ MainSkipPhase
    \/ MainContinue
    \/ MainSubmit
    \/ MainShutdown
    \/ MainWait
    \/ MainContinueEmerge
    \/ MainScan
    \/ MainDecide
    \/ MainSubmitEmerge
    \/ MainNextWork
    \/ MainLoopEnd
    \/ MainShutdownEmerge
    \/ MainReport
    \/ MainCopyBoard
    \/ MainCopyPackage
    \/ MainCopyNext
    \/ MainMatrix
    \/ \E t \in DOMAIN tasks : RunTask(t)
    \/ \E t \in DOMAIN tasks : \E returncode \in {0, 1} :
           setup_board(t, returncode)
    \/ \E t \in DOMAIN tasks : \E returncode \in {0, 1} :
           _cros_workon(t, returncode)
    \/ \E t \in DOMAIN tasks : \E returncode \in {0, 1} :
           \E opened \in BOOLEAN : _build_packages(t, returncode, opened)
    \/ \E t \in DOMAIN tasks : build_packages(t)
    \/ \E t \in DOMAIN tasks : \E returncode \in {0, 1} :
           _emerge_blocking(t, returncode)
    \/ \E t \in DOMAIN tasks : \E decoded \in BOOLEAN :
           build_dependency_graph(t, decoded)
    \/ \E t \in DOMAIN tasks : Raise(t)
    \/ \E t \in DOMAIN tasks : handle_exception(t)
    \/ \E t \in DOMAIN tasks : \E ret \in {"True", "False", "exception"} :
           emerge(t, ret)
    \/ \E t \in DOMAIN tasks : _handle_emerge_result(t)
    \/ \E t \in DOMAIN tasks : passing_or_failed_emerge_add(t)
    \/ \E t \in DOMAIN tasks : scheduled_emerge_remove(t)

SpecOrch == OInit /\ [][ONext]_vars

(***************************************************************************)
(* The history rewriter: claims.                                           *)
(***************************************************************************)
\* the entries of committed made by the current run of main()
ThisRun == {k \in DOMAIN committed : committed[k].run = runs}

\* the filtered diff of a commit against its first parent
FilteredDiff(c) ==
    filter_diff(libchrome_filter,
        git_difftree(IF get_metadata(c).parents # <<>>
                     THEN get_metadata(c).parents[1] ELSE None, c)).value

\* the tree built from scratch from the wanted files of a commit
ExpectedTree(c) ==
    git_mktree(filter_files(libchrome_filter, <<>>, get_file_list(c)))

\* C1: every commit process_commits emits for an upstream commit O has the
\* tree built from scratch from the wanted files of O, with or without a
\* look-forward window.
C1_EquivalenceLaw ==
    \A k \in DOMAIN committed :
        objects[committed[k].new].tree = ExpectedTree(committed[k].orig)

\* C4: the parents of every commit emitted in the current run are the
\* parents of its upstream commit, in order, each resolved through
\* commits_map (which holds every resolved parent), and as many of them.
C4_DagPreservation ==
    \A k \in ThisRun :
        LET N == objects[committed[k].new]
            O == get_metadata(committed[k].orig)
        IN  /\ Len(N.parents) = Len(O.parents)
            /\ \A j \in DOMAIN O.parents :
                   /\ O.parents[j] \in DOMAIN commits_map
                   /\ N.parents[j] = commits_map[O.parents[j]]

\* C4 witness: a merge has been emitted whose two parents resolve to
\* different filtered commits
C4_Witness ==
    \E k \in ThisRun :
        /\ Len(get_metadata(committed[k].orig).parents) = 2
        /\ objects[committed[k].new].parents[1]
             # objects[committed[k].new].parents[2]

\* C5 (first part): an iterated commit with at most one parent and an
\* empty filtered diff gets no commit and is mapped like its parent
C5_Elided ==
    pc # "idle" =>
    \A k \in 1 .. (i - 1) :
        LET C == pending_commits[k]
        IN  (Len(get_metadata(C).parents) <= 1 /\ FilteredDiff(C) = <<>>) =>
            /\ \A e \in ThisRun : committed[e].orig # C
            /\ Len(get_metadata(C).parents) = 1 =>
                   /\ C \in DOMAIN commits_map
                   /\ commits_map[C] = commits_map[get_metadata(C).parents[1]]

\* C5: elision correctness, and a run whose commits are all elided this
\* way ends successfully and returns a head.
C5_ElisionCorrectness ==
    /\ C5_Elided
    /\ ( /\ pc \in {"done", "crashed"}
         /\ pending_commits # <<>>
         /\ \A k \in DOMAIN pending_commits :
                /\ Len(get_metadata(pending_commits[k]).parents) <= 1
                /\ FilteredDiff(pending_commits[k]) = <<>> )
       => (pc = "done" /\ stdout # NoCommit)

\* C6: every merge the main loop has iterated over has a commit of the
\* current run, with one mapped parent per upstream parent.
C6_MergesEmitted ==
    pc # "idle" =>
    \A k \in 1 .. (i - 1) :
        LET O == get_metadata(pending_commits[k])
        IN  Len(O.parents) >= 2 =>
            \E e \in ThisRun :
                /\ committed[e].orig = pending_commits[k]
                /\ Len(objects[committed[e].new].parents) = Len(O.parents)
                /\ \A j \in DOMAIN O.parents :
                       objects[committed[e].new].parents[j]
                         = commits_map[O.parents[j]]

\* C6 witness: a merge whose filtered diff against its first parent is
\* empty has been emitted
C6_Witness ==
    \E e \in ThisRun :
        /\ Len(get_metadata(committed[e].orig).parents) >= 2
        /\ FilteredDiff(committed[e].orig) = <<>>
        /\ Len(objects[committed[e].new].parents) = 2

\* C9: an emitted commit has the author name, email and authored time with
\* timezone of its upstream commit, and its message is the upstream message,
\* a blank line, and the line "<annotation-key>: <O>".
C9_IdentityPreservation ==
    \A k \in DOMAIN committed :
        LET N == objects[committed[k].new]
            O == get_metadata(committed[k].orig)
            n == Len(N.message)
        IN  /\ N.authorship.name = O.authorship.name
            /\ N.authorship.email = O.authorship.email
            /\ N.authorship.date[1] = O.authorship.time
            /\ N.authorship.date[3] = O.authorship.timezone
            /\ n = Len(O.message) + 5
            /\ SubSeq(N.message, 1, n - 5) = O.message
            /\ N.message[n - 4] = "\n\n"
            /\ N.message[n - 3] = commit_hash_meta_name
            /\ N.message[n - 2] = ": "
            /\ N.message[n - 1] = committed[k].orig
            /\ N.message[n] = "\n"

\* C9 witness: commits of both authors have been emitted
C9_Witness ==
    /\ \E k \in DOMAIN committed :
           objects[committed[k].new].authorship.name = "alice"
    /\ \E k \in DOMAIN committed :
           objects[committed[k].new].authorship.name = "bob"

\* C10: a run over an empty range (main() has computed the rev-list and it
\* has no commit) emits nothing, ends without error and reports
\* parent_filtered as the head.
C10_EmptyRangeNoOp ==
    (/\ pc \in {"done", "crashed"}
     /\ pending_commits = <<>>
     /\ err # "AttributeError") =>
        /\ pc = "done"
        /\ err = ""
        /\ stdout = head
        /\ ThisRun = {}

\* the commits of the range that the loop has gone through and given an
\* entry of the map
Stored ==
    {pending_commits[j] : j \in 1 .. (i - 1)} \cap DOMAIN commits_map

\* C22: every value of commits_map is a commit reachable from the filtered
\* branch head that the run returns.  The formula asks it, for a run that
\* has returned, of the values that its loop has stored under the commits
\* of the upstream range (the values written for elided and looked-over
\* commits included), and not of the value under ROOT nor of the values
\* read from the filtered branch at initialization.
C22_UpstreamValuesReachable ==
    pc = "done" =>
        \A k \in Stored :
            commits_map[k] \in Reachable(objects, stdout)

\* the pending commits are three non-merge commits: the first adds a
\* wanted file, the second removes it again, the third adds files that are
\* not wanted
AddRevertUnwanted ==
    /\ Len(pending_commits) = 3
    /\ \A k \in 1 .. 3 : Len(get_metadata(pending_commits[k]).parents) = 1
    /\ Len(FilteredDiff(pending_commits[1])) = 1
    /\ FilteredDiff(pending_commits[1])[1].op = DiffOperations.ADD
    /\ FilteredDiff(pending_commits[2])
          = << [op |-> DiffOperations.DEL,
                file |-> FilteredDiff(pending_commits[1])[1].file] >>
    /\ FilteredDiff(pending_commits[3]) = <<>>
    /\ git_difftree(pending_commits[2], pending_commits[3]) # <<>>
    /\ \A k \in DOMAIN git_difftree(pending_commits[2], pending_commits[3]) :
           git_difftree(pending_commits[2], pending_commits[3])[k].op
              = DiffOperations.ADD

\* C23: with look-forward window 3 and an upstream range of exactly three
\* non-merge commits (one adds a wanted file, the next reverts it, the third
\* adds an unwanted file), the loop emits no filtered commit and leaves
\* commits_map mapping all three commits to the head that existed before
\* the run.
C23_LookForwardElidesRun ==
    ( /\ pc = "loop"
      /\ i > Len(pending_commits)
      /\ look_forward = 3
      /\ AddRevertUnwanted )
    => /\ ThisRun = {}
       /\ \A k \in 1 .. 3 :
              /\ pending_commits[k] \in DOMAIN commits_map
              /\ commits_map[pending_commits[k]] = head

\* the commit has several parents
IsMerge(commit) == Len(get_metadata(commit).parents) >= 2

\* C36: with any look-forward window W > 0, a commit is skipped by
\* look-forward only if it is not a merge, so that every merge commit of
\* the range is processed by the main loop and gets its own filtered
\* commit; a window that contains a merge is not compressed.
C36_LookForwardKeepsMerges ==
    pc = "loop"
    => /\ look_forward_until # <<>>
          => \A k \in i .. look_forward_until[1].look_forward_until_index :
                k <= Len(pending_commits) => ~IsMerge(pending_commits[k])
       /\ \A k \in 1 .. (i - 1) :
             IsMerge(pending_commits[k])
             => \E e \in ThisRun : committed[e].orig = pending_commits[k]

\* a look-forward of three commits has just been refused for a window that
\* holds a merge and whose filtered diff is empty
C36_Witness ==
    /\ pc = "loop"
    /\ look_forward = 3
    /\ look_forward_until # <<>>
    /\ look_forward_until[1].parent_commit_hash = NoCommit
    /\ i = look_forward_until[1].look_forward_until_index + 2
    /\ i + 2 <= Len(pending_commits)
    /\ \E k \in i .. (i + 2) : IsMerge(pending_commits[k])
    /\ filter_diff(libchrome_filter,
           git_difftree(pending_commits[i + 2], pending_commits[i - 1])
           ).value = <<>>

\* the key of the map that the claim resolves P to: P itself, else its
\* nearest ancestor along first parents that is in the map, else ROOT
RECURSIVE NearestMapped(_, _)
NearestMapped(P, map) ==
    IF P \in DOMAIN map THEN P
    ELSE IF get_metadata(P).parents = <<>> THEN ROOT
    ELSE NearestMapped(get_metadata(P).parents[1], map)

\* find_filtered_commit(P, map) does what the claim says
ResolvesParent(P, map) ==
    /\ find_filtered_commit(P, map).ok
    /\ NearestMapped(P, map) \in DOMAIN map
    /\ find_filtered_commit(P, map).value = map[NearestMapped(P, map)]
    /\ find_filtered_commit(P, map).map
          = Put(map, P, map[NearestMapped(P, map)])
    /\ \A k \in DOMAIN map :
          find_filtered_commit(P, map).map[k] = map[k]

\* the parents that the iteration of process_commits at hand resolves
ParentsAtHand ==
    IF pc = "loop" /\ i <= Len(pending_commits) /\ ~Skipping
    THEN Range(get_metadata(pending_commits[i]).parents)
    ELSE {}

\* C40: for every upstream commit P that process_commits resolves,
\* find_filtered_commit returns commits_map[P] when P is in the map,
\* otherwise the value of the nearest ancestor of P along first parents
\* that is in the map, and commits_map[ROOT] when no ancestor is; it
\* returns a value without failing, changes no entry that exists, and adds
\* no entry but commits_map[P].
C40_ParentResolution ==
    \A P \in ParentsAtHand : ResolvesParent(P, commits_map)

(***************************************************************************)
(* The build orchestrator: claims.                                         *)
(***************************************************************************)
\* the packages of packages_to_verify that equery reports package to depend
\* on, on a board
InSetDependencies(board, package) ==
    {d \in Range(work[board].packages_to_verify) :
        package \in Range(_list_depended_by(board, d))}

\* the emerges, or the runs of another function, whose command is running
RunningOperations(fn) ==
    {t \in DOMAIN tasks : tasks[t].fn = fn /\ tasks[t].st = "running"}

\* a step of main() that submits a task
Submits == Len(tasks') = Len(tasks) + 1

\* C2: a package is submitted for emerge on a board only when all its
\* dependencies inside packages_to_verify have completed there.  The
\* formula also lets pass the cycle-break rule of buildable_packages: no
\* package of the board is buildable, no emerge of the board is scheduled,
\* and the package is the first one of packages_to_verify that is neither
\* scheduled nor completed.
C2_PrecedenceOrCycleBreak ==
    [][(Submits /\ tasks'[Len(tasks')].fn = "emerge") =>
          \E t \in {tasks'[Len(tasks')]} :
              \/ InSetDependencies(t.board, t.package)
                     \subseteq work[t.board].completed_emerge
              \/ /\ newly_buildable_packages(work[t.board]) = <<>>
                 /\ work[t.board].scheduled_emerge = {}
                 /\ t.package = Head(pending_packages(work[t.board]))
      ]_vars

\* C3: when the scheduling loop of the dependents phase has been left, on
\* every board that is not failed or bug every package of
\* packages_to_verify is in completed_emerge and scheduled_emerge is empty.
C3_CompleteCoverage ==
    mpc = "exit" =>
        \A b \in Range(boards) :
            ~already_failed(b) =>
                /\ Range(work[b].packages_to_verify)
                       \subseteq work[b].completed_emerge
                /\ work[b].scheduled_emerge = {}

\* C7: at every moment at most 1 setup_board, at most K_build (3, or
\* --max-build-packages) build_packages and at most K_emerge (50, or
\* --max-emerges) per-package emerges are running, over all boards.
C7_BoundedPools ==
    /\ Cardinality(RunningOperations("setup_board")) <= 1
    /\ Cardinality(RunningOperations("build_packages"))
           <= (IF arg.max_build_packages # 0 THEN arg.max_build_packages
               ELSE 3)
    /\ Cardinality(RunningOperations("emerge"))
           <= (IF arg.max_emerges # 0 THEN arg.max_emerges ELSE 50)

\* C7 witness: with --max-emerges 2, two emerges are running and a third
\* one waits in the queue of the pool
C7_Witness ==
    /\ arg.max_emerges = 2
    /\ Cardinality(RunningOperations("emerge")) = 2
    /\ \E t \in DOMAIN tasks :
           tasks[t].fn = "emerge" /\ tasks[t].st = "queued"

\* C8: no task is submitted for a board whose state has been failed or bug.
C8_NoWorkAfterFailure ==
    [][Submits => tasks'[Len(tasks')].board \notin ever_failed]_vars

\* the external tools of the first four blocks, and the block each runs in
Tools ==
    {"setup_board", "cros_workon_stop", "build_packages",
     "cros_workon_start", "emerge_libchrome", "equery"}

ToolPhase(tool) ==
    CASE tool = "setup_board" -> 1
      [] tool \in {"cros_workon_stop", "build_packages"} -> 2
      [] tool \in {"cros_workon_start", "emerge_libchrome"} -> 3
      [] OTHER -> 4

\* the block a submitted function belongs to
FnPhase(fn) ==
    CASE fn = "setup_board" -> 1
      [] fn = "build_packages" -> 2
      [] fn = "emerge_libchrome" -> 3
      [] fn = "build_dependency_graph" -> 4
      [] OTHER -> 5

\* the exit statuses of a tool on a board, in order
ExitStatuses(board, tool) ==
    SelectSeq(invocations[board], LAMBDA e : e[1] = tool)

\* the number of times a tool exited non-zero on a board
Failures(board, tool) ==
    Len(SelectSeq(ExitStatuses(board, tool), LAMBDA e : e[2] # 0))

\* the tool of a phase has failed on the board; build_packages after its
\* retries
ToolFailed(board, tool) ==
    IF tool = "build_packages" THEN Failures(board, tool) = 3
    ELSE Failures(board, tool) > 0

\* C14: if the external tool of a phase exits non-zero on a board
\* (build_packages: in all its trials), the board is in state failed and no
\* function of a later phase is submitted for it.
C14_PhaseFailureTerminal ==
    \A board \in Range(boards) : \A tool \in Tools :
        ToolFailed(board, tool)
        => /\ states[board] = "failed"
           /\ \A t \in DOMAIN tasks :
                  tasks[t].board = board
                  => FnPhase(tasks[t].fn) <= ToolPhase(tool)

\* the done callbacks of work item t run in this step, and its function
\* had raised
CallbackAfterException(t) ==
    /\ tasks[t].st = "finished"
    /\ tasks[t].ret = "exception"
    /\ t \in DOMAIN tasks'
    /\ tasks'[t].st # "finished"

\* C15: when a task submitted to a work pool (setup_board, build_packages,
\* emerge of the component, dependency enumeration, a per-package emerge)
\* raises an uncaught exception, the state of its board becomes bug.
C15_ExceptionMeansBug ==
    [][\A t \in DOMAIN tasks :
          CallbackAfterException(t) => states'[tasks[t].board] = "bug"]_vars

\* the packages state.failed holds for a board
FailedOf(board) ==
    (CHOOSE item \in Range(failed) : item[1] = board)[2]

\* a matrix file has been written and has a column for the board
InMatrix(file, board) ==
    /\ file \in DOMAIN output_directory
    /\ \E k \in DOMAIN output_directory[file].header :
           output_directory[file].header[k].text = board

\* C16: at the end of a run every board that is failed or bug is in the
\* written matrix (matrix.txt and matrix.csv), a board in bug with the
\* package row SYSTEM, and a board that is neither contributes exactly the
\* packages whose emerge failed.
C16_FailureMatrix ==
    mpc = "end" =>
        \A board \in Range(boards) :
            IF already_failed(board)
            THEN /\ InMatrix(<<"matrix.txt">>, board)
                 /\ InMatrix(<<"matrix.csv">>, board)
                 /\ states[board] = "bug" => "SYSTEM" \in FailedOf(board)
            ELSE FailedOf(board) = work[board].failed_emerge

\* build_packages() has returned for the board and nothing later has run
\* for it
BuildPackagesEnded(board) ==
    /\ \E t \in DOMAIN tasks :
           /\ tasks[t].fn = "build_packages"
           /\ tasks[t].board = board
           /\ tasks[t].st = "done"
    /\ \A t \in DOMAIN tasks :
           (tasks[t].board = board /\ FnPhase(tasks[t].fn) > 2)
           => tasks[t].st = "queued"

\* a board invokes the build_packages tool at most 3 times and no
\* invocation follows one that succeeded
AtMostThreeTrials(board) ==
    /\ Len(ExitStatuses(board, "build_packages")) <= 3
    /\ \A k \in 1 .. Len(ExitStatuses(board, "build_packages")) - 1 :
           ExitStatuses(board, "build_packages")[k][2] # 0

\* C18: in the first-pass build_packages phase a board invokes the
\* build_packages tool at most 3 times, no invocation follows one that
\* succeeded, and the phase ends in state failed if and only if all 3
\* invocations failed.
C18_RetryBound ==
    \A board \in Range(boards) :
        /\ AtMostThreeTrials(board)
        /\ BuildPackagesEnded(board)
           => (states[board] = "failed"
               <=> Failures(board, "build_packages") = 3)

\* C18, amended: at most 3 invocations, none after one that succeeded, and
\* a phase that no exception has ended in state bug ends in state failed if
\* and only if `cros_workon stop` failed (the tool is then not invoked) or
\* all 3 invocations failed.
C18_RetryBoundOrWorkonFailed ==
    \A board \in Range(boards) :
        /\ AtMostThreeTrials(board)
        /\ (BuildPackagesEnded(board) /\ states[board] # "bug")
           => (states[board] = "failed"
               <=> \/ Failures(board, "cros_workon_stop") > 0
                   \/ Failures(board, "build_packages") = 3)
        /\ Failures(board, "cros_workon_stop") > 0
           => ExitStatuses(board, "build_packages") = <<>>

\* one board has ended the phase after three failed trials, another after
\* a failed trial and a trial that succeeded
C18_Witness ==
    /\ BuildPackagesEnded("b1")
    /\ Len(ExitStatuses("b1", "build_packages")) = 3
    /\ Failures("b1", "build_packages") = 3
    /\ states["b1"] = "failed"
    /\ "b2" \in Range(boards)
    /\ BuildPackagesEnded("b2")
    /\ ExitStatuses("b2", "build_packages")
           = << <<"build_packages", 1>>, <<"build_packages", 0>> >>
    /\ states["b2"] = "build_packages"

\* C19: in every reachable state of a board, the states between the
\* single set updates of the scheduling thread and of the completion
\* callbacks included, completed_emerge is the disjoint union of
\* passing_emerge and failed_emerge, and scheduled_emerge and
\* completed_emerge have no package in common.
C19_PackageSets ==
    \A board \in Range(boards) :
        /\ work[board].completed_emerge
               = work[board].passing_emerge \cup work[board].failed_emerge
        /\ work[board].passing_emerge \cap work[board].failed_emerge = {}
        /\ work[board].scheduled_emerge \cap work[board].completed_emerge
               = {}

\* C20: once the recorded state of a board has become failed or bug, it
\* never changes to any other state for the rest of the run.
C20_StickyTerminal ==
    [][\A board \in Range(boards) :
          already_failed(board) => states'[board] = states[board]]_vars

\* the phase of each command run for the board so far, in order
ToolPhases(board) ==
    [k \in 1 .. Len(invocations[board]) |->
        ToolPhase(invocations[board][k][1])]

\* a step that submits or starts a function, or runs a command, does it in
\* the block of main() the function or command belongs to, after the
\* commands of the earlier blocks and cros_workon start before the emerge
\* of the component, and a step that leaves a block leaves every future of
\* it done
PhaseStep ==
    /\ phase' >= phase
    /\ phase' # phase => \A t \in DOMAIN tasks : tasks[t].st = "done"
    /\ Submits => FnPhase(tasks'[Len(tasks')].fn) = phase
    /\ \A t \in DOMAIN tasks :
          (t \in DOMAIN tasks' /\ tasks[t].st = "queued"
              /\ tasks'[t].st = "running")
          => FnPhase(tasks[t].fn) = phase
    /\ \A board \in Range(boards) :
          Len(invocations'[board]) > Len(invocations[board])
          => /\ ToolPhases(board)'[Len(invocations'[board])] = phase
             /\ \A k \in 1 .. Len(invocations[board]) :
                   /\ ToolPhases(board)[k] <= phase
                   /\ invocations[board][k][1] = "emerge_libchrome"
                      => invocations'[board][Len(invocations'[board])][1]
                            # "cros_workon_start"

\* C28: on every board the phases start in the order setup_board,
\* first-pass build_packages, cros_workon start and emerge of the
\* component, enumerate_dependencies, emerge of dependents, and a phase of
\* a board never starts before the previous phase of that board has
\* finished.
C28_PhaseOrder == [][PhaseStep]_vars

\* a dependent is being emerged on a board that has run the commands of
\* all four earlier phases
C28_Witness ==
    /\ phase = 5
    /\ \E t \in DOMAIN tasks :
          /\ tasks[t].fn = "emerge"
          /\ tasks[t].st = "running"
          /\ {invocations[tasks[t].board][k][1] :
                 k \in 1 .. Len(invocations[tasks[t].board])} = Tools

\* the packages whose emerge has been submitted for the board, in the order
\* of submission
Emerges(board) ==
    [k \in 1 .. Len(SelectSeq(tasks, LAMBDA t : t.fn = "emerge"
                                                  /\ t.board = board)) |->
        SelectSeq(tasks, LAMBDA t : t.fn = "emerge"
                                     /\ t.board = board)[k].package]

\* C29: where B depends on A and C on B, the emerges of a board start in
\* the order A, B, C, and when B has failed on a board C is still attempted
\* there: once the last pool has been shut down, C has been submitted.  (The
\* formula does not ask by which branch of buildable_packages.)
C29_DependentStillAttempted ==
    world = "chain" =>
        \A board \in Range(boards) :
            /\ \E n \in 0 .. 3 :
                   Emerges(board) = SubSeq(<<"A", "B", "C">>, 1, n)
            /\ (mpc = "report" /\ "B" \in work[board].failed_emerge)
               => "C" \in Range(Emerges(board))

\* the packages that buildable_packages returns at this step have a
\* dependency inside packages_to_verify that has not completed
ReturnsUnsatisfied ==
    \E k \in DOMAIN todo' :
        ~dependency_satisfied(work[boards[wk]], todo'[k])

\* C32: buildable_packages returns a package that has an uncompleted
\* in-set dependency only when no package of the board is buildable and
\* scheduled_emerge is empty, and in that case it returns exactly one
\* pending package.
C32_ReturnStep ==
    (mpc = "decide" /\ mpc' = "submit_emerge" /\ ReturnsUnsatisfied)
    => /\ newly_buildable_packages(work[boards[wk]]) = <<>>
       /\ work[boards[wk]].scheduled_emerge = {}
       /\ Len(todo') = 1
       /\ todo'[1] \in Range(pending_packages(work[boards[wk]]))

C32_CycleBreakRule == [][C32_ReturnStep]_vars

\* what the claim asks of the list returned for the sets w of a board
BuildableSet(w, returned) ==
    /\ newly_buildable_packages(w) # <<>>
       => returned = newly_buildable_packages(w)
    /\ (newly_buildable_packages(w) = <<>> /\ w.scheduled_emerge # {})
       => returned = <<>>

\* the returned list is what the claim asks for the sets as the loop of
\* buildable_packages saw them: its buildable packages, or nothing
AsScanned(returned) ==
    \/ scan.newly_buildable_packages # <<>>
          /\ returned = scan.newly_buildable_packages
    \/ scan.newly_buildable_packages = <<>> /\ returned = <<>>

\* C33: whenever at least one package of a board is buildable,
\* buildable_packages returns exactly the packages of packages_to_verify
\* that are not scheduled or completed and have every in-set dependency
\* completed; when none is buildable and scheduled_emerge is non-empty it
\* returns nothing; it changes none of the board's sets.  The sets are
\* taken as they are when it returns or as its loop saw them.
C33_ReturnStep ==
    (mpc = "decide" /\ mpc' = "submit_emerge")
    => /\ work' = work
       /\ \/ BuildableSet(work[boards[wk]], todo')
          \/ AsScanned(todo')

C33_BuildableSet == [][C33_ReturnStep]_vars

\* C34: for every dependency graph the dependents phase terminates with
\* every package of every board that has not failed submitted for emerge:
\* when main() has left the loop of the phase, no package of such a board
\* is left unsubmitted.
C34_AllSubmittedAtExit ==
    mpc = "exit"
    => \A board \in Range(boards) :
           ~already_failed(board)
           => Range(work[board].packages_to_verify)
                 \subseteq Range(Emerges(board))

\* C35: on every board each distinct package name of packages_to_verify is
\* submitted for emerge at most once in the dependents phase, also when
\* equery lists several versions of a package that reduce to the same name.
C35_EmergedOnce ==
    \A board \in Range(boards) :
        \A j, k \in DOMAIN Emerges(board) :
            Emerges(board)[j] = Emerges(board)[k] => j = k

\* the done callback of an emerge of the board is between its writes of
\* the sets of the board
InCallback(board) ==
    \E t \in DOMAIN tasks :
        tasks[t].board = board /\ tasks[t].st = "callback"

\* C37: every write to the State and to the scheduled, completed, passing
\* and failed sets of a board is made under the mutex of the object, so
\* that no write of a completion callback comes between the reads that
\* buildable_packages makes on the scheduling thread, and
\* buildable_packages does not read the sets between the writes of a
\* callback.
C37_SerializedStep ==
    /\ (mpc = "decide" /\ mpc' = "decide")
       => work'[boards[wk]] = work[boards[wk]]
    /\ (mpc \in {"scan", "decide"} /\ mpc' \in {"decide", "submit_emerge"}
          /\ mpc' # mpc)
       => ~InCallback(boards[wk])

C37_MutexGuarded == [][C37_SerializedStep]_vars

\* the states of the claim
ClaimedStates ==
    {"pending", "setup_board", "build_packages", "cros_workon_start",
     "cros_workon_stop", "emerge_libchrome", "enumerate_dependencies",
     "emerge", "failed", "bug"}

\* C38: in every reachable state the recorded state of every board is one
\* of pending, setup_board, build_packages, cros_workon_start,
\* cros_workon_stop, emerge_<pkg>, enumerate_dependencies, emerge, failed,
\* bug.
C38_PhaseDomain ==
    \A board \in Range(boards) : states[board] \in ClaimedStates

\* C38, amended: the recorded state of every board is one of these or
\* waiting, the state main() records when it submits build_packages or
\* emerge_libchrome for the board.
C38_PhaseDomainWithWaiting ==
    \A board \in Range(boards) :
        states[board] \in ClaimedStates \cup {"waiting"}

\* a board waits for its build_packages to start while another board is
\* in cros_workon_stop
C38_Witness ==
    \E b1, b2 \in Range(boards) :
        /\ states[b1] = "waiting"
        /\ states[b2] = "cros_workon_stop"
        /\ phase = 2

\* main() has ended a run in which no board failed and no package failed
\* on any board
CleanRunEnded ==
    /\ mpc = "end"
    /\ failed # <<>>
    /\ \A k \in DOMAIN failed : failed[k][2] = {}

\* C39: when every board passes all phases and no package fails on any
\* board, the reporting at the end of the run completes without raising an
\* error and reports no row of a failing package.
C39_CleanRunEnds ==
    CleanRunEnded
    => /\ main_error = ""
       /\ <<"matrix.txt">> \in DOMAIN output_directory
          => output_directory[<<"matrix.txt">>].data = {}


(***************************************************************************)
(* The path filters (filters.py) called on their own: a Filter is built    *)
(* from rule lists and its methods are called on paths and file lists.     *)
(***************************************************************************)
\* longest file list passed to filter_files
MaxFiles == 3

\* the rule lists of filter_config.py, of test_filters.py (test_filters) and
\* of generate_filtered_tree.main() with --filter_files
RuleLists ==
    { [want |-> WANT, want_excluded |-> WANT_EXCLUDE,
       always_want |-> ALWAYS_WANT,
       keep |-> KEEP, keep_excluded |-> KEEP_EXCLUDE],
      [want |-> << {"want/xxx", "want_excluded/xxx"} >>,      \* want.*
       want_excluded |-> << {"want_excluded/xxx"} >>,         \* want_excluded.*
       always_want |-> <<>>,
       keep |-> << {"keep/xxx", "keep_excluded/xxx"} >>,      \* keep.*
       keep_excluded |-> << {"keep_excluded/xxx"} >>],        \* keep_excluded.*
      [want |-> << PathFilter(<<"a/b/c", "d">>) >>,
       want_excluded |-> <<>>, always_want |-> <<>>,
       keep |-> <<>>, keep_excluded |-> <<>>] }

\* the Filter that main() builds from rule lists
FilterOf(r) == Filter(r.want, r.want_excluded, r.keep, r.keep_excluded)

FileList(paths, blob) == [k \in DOMAIN paths |-> GitFile(paths[k], blob)]

\* the runs of at most MaxFiles consecutive files of a list
Windows(files) ==
    {<<>>} \cup
    {SubSeq(files, w[1], w[2]) :
        w \in {v \in (DOMAIN files) \X (DOMAIN files) : v[2] - MaxFiles < v[1]}}

UpstreamLists ==
    Windows(FileList(<<"base/BUILD.gn", "base/a.h", "base/b.h",
                       "base/buildflags.h", "base/hash/md5_nacl.h",
                       "base/win/b.h", "chrome/x.cc",
                       "third_party/ply/x.py">>, 1))
    \cup Windows(FileList(<<"want/xxx", "want_excluded/xxx",
                            "unrelated_upstream_file">>, 1))
    \cup Windows(FileList(<<"a", "b", "c", "a/b", "b/c", "a/b/c", "d",
                            "a/b/c/x", "d/e">>, 1))

OurLists ==
    Windows(FileList(<<"Android.bp", "base/a.h", "base/buildflags.h",
                       "chrome/x.cc", "third_party/ply/x.py">>, 2))
    \cup Windows(FileList(<<"unrelated_local_file", "keep/xxx",
                            "keep_excluded/xxx">>, 2))

FInit ==
    /\ rules \in RuleLists
    /\ arg_our_files \in OurLists
    /\ arg_upstream_files \in UpstreamLists
    /\ filter_call = NoCall
    /\ RewriterIdle
    /\ OrchIdle
    /\ LazyTreeIdle
    /\ StateIdle
    /\ VerifyIdle
    /\ UpdateIdle

\* a call of Filter._want_file
WantFile(path) ==
    /\ filter_call' = [fn |-> "_want_file", path |-> path,
                       value |-> _want_file(FilterOf(rules), path)]
    /\ UNCHANGED <<rules, arg_our_files, arg_upstream_files>>
    /\ UNCHANGED <<rvars, ovars, tvars, mvars, pvars, uvars>>

\* a call of Filter._keep_file
KeepFile(path) ==
    /\ filter_call' = [fn |-> "_keep_file", path |-> path,
                       value |-> _keep_file(FilterOf(rules), path)]
    /\ UNCHANGED <<rules, arg_our_files, arg_upstream_files>>
    /\ UNCHANGED <<rvars, ovars, tvars, mvars, pvars, uvars>>

\* a call of Filter.filter_files
FilterFiles ==
    /\ filter_call' = [fn |-> "filter_files",
                       value |-> filter_files(FilterOf(rules), arg_our_files,
                                              arg_upstream_files)]
    /\ UNCHANGED <<rules, arg_our_files, arg_upstream_files>>
    /\ UNCHANGED <<rvars, ovars, tvars, mvars, pvars, uvars>>

\* a call of Filter.filter_diff on the diff that adds the upstream files
FilterDiff ==
    /\ filter_call' =
          [fn |-> "filter_diff",
           value |-> filter_diff(FilterOf(rules),
                        [k \in DOMAIN arg_upstream_files |->
                            [op |-> DiffOperations.ADD,
                             file |-> arg_upstream_files[k]]])]
    /\ UNCHANGED <<rules, arg_our_files, arg_upstream_files>>
    /\ UNCHANGED <<rvars, ovars, tvars, mvars, pvars, uvars>>

FNext ==
    \/ \E path \in FilterPaths : WantFile(path)
    \/ \E path \in FilterPaths : KeepFile(path)
    \/ FilterFiles
    \/ FilterDiff

SpecFilters == FInit /\ [][FNext]_vars

(***************************************************************************)
(* Claims about the path filters.                                          *)
(***************************************************************************)
AnyMatch(rule_list, path) == \E k \in DOMAIN rule_list : Match(rule_list[k], path)

\* the want predicate of the filter configuration
Wanted(r, path) ==
    \/ AnyMatch(r.want, path) /\ ~AnyMatch(r.want_excluded, path)
    \/ AnyMatch(r.always_want, path)

\* the keep predicate of the filter configuration
Kept(r, path) == AnyMatch(r.keep, path) /\ ~AnyMatch(r.keep_excluded, path)

\* C11: want(p) is true exactly when (some WANT rule matches p and no
\* WANT_EXCLUDE rule matches p) or some ALWAYS_WANT rule matches p.
C11_WantPredicate ==
    filter_call.fn = "_want_file"
    => (filter_call.value <=> Wanted(rules, filter_call.path))

\* C12: filter_files(D, U) is the upstream files whose path is wanted
\* followed by the downstream files whose path is kept, each group in input
\* order, and nothing else.
C12_FilterFiles ==
    filter_call.fn = "filter_files"
    => filter_call.value =
          SelectSeq(arg_upstream_files, LAMBDA u : Wanted(rules, u.path))
          \o SelectSeq(arg_our_files, LAMBDA d : Kept(rules, d.path))

\* C24: for every filter that is constructed and every path p, want(p) and
\* keep(p) are never both true, and the check of it that the filter makes
\* (the assertion of filter_diff) never fails.
C24_WantKeepDisjoint ==
    /\ filter_call.fn \in {"_want_file", "_keep_file"}
       => ~ /\ _want_file(FilterOf(rules), filter_call.path)
            /\ _keep_file(FilterOf(rules), filter_call.path)
    /\ filter_call.fn = "filter_diff" => filter_call.value.ok

\* the rule lists of test_path_filter are in use
PathFilterInUse ==
    /\ rules.want = << PathFilter(<<"a/b/c", "d">>) >>
    /\ rules.want_excluded = <<>>

\* C30: a filter whose WANT list is a PathFilter over a list of paths wants
\* a path if and only if the path is one of the listed paths; prefixes of a
\* listed path, suffixes of it and paths below it are not wanted.
C30_ExactPathFilter ==
    PathFilterInUse
    => /\ filter_call.fn = "_want_file"
          => (filter_call.value <=> filter_call.path \in {"a/b/c", "d"})
       /\ filter_call.fn = "filter_files"
          => filter_call.value =
                SelectSeq(arg_upstream_files,
                          LAMBDA u : u.path \in {"a/b/c", "d"})

\* filter_files has taken the listed paths out of a list that also holds a
\* path below one of them
C30_Witness ==
    /\ PathFilterInUse
    /\ filter_call.fn = "filter_files"
    /\ arg_upstream_files = FileList(<<"a/b/c", "d", "a/b/c/x">>, 1)
    /\ filter_call.value = FileList(<<"a/b/c", "d">>, 1)

\* the diff that filter_diff is called on
DiffOfCall ==
    [k \in DOMAIN arg_upstream_files |->
        [op |-> DiffOperations.ADD, file |-> arg_upstream_files[k]]]

\* C31: filter_diff returns exactly the operations of the diff whose file
\* path is wanted, in their order and unchanged; if a wanted path is also
\* kept it fails with an assertion error instead of returning a result.
C31_FilterDiff ==
    filter_call.fn = "filter_diff"
    => IF \E k \in DOMAIN DiffOfCall :
              /\ Wanted(rules, DiffOfCall[k].file.path)
              /\ Kept(rules, DiffOfCall[k].file.path)
       THEN ~filter_call.value.ok
       ELSE /\ filter_call.value.ok
            /\ filter_call.value.value =
                  SelectSeq(DiffOfCall,
                            LAMBDA ch : Wanted(rules, ch.file.path))

(***************************************************************************)
(* The lazy tree (lazytree.LazyTree): a mutable view over a committed      *)
(* tree.  A tree object maps a name to a blob or to the tree object of a   *)
(* directory, and its hash is canonical: the object itself.  The lazy tree *)
(* keeps the tree objects of the directories that were touched and         *)
(* hash() materializes them bottom-up.                                     *)
(***************************************************************************)
\* number of edits made to one LazyTree
MaxOperations == 3

\* path.split(b'/')
Components(path) ==
    CASE path = "Android.bp" -> <<"Android.bp">>
      [] path = "base/a.h" -> <<"base", "a.h">>
      [] path = "base/b.h" -> <<"base", "b.h">>
      [] path = "base/win/b.h" -> <<"base", "win", "b.h">>

Blob(b) == [kind |-> "blob", blob |-> b]

Tree(entries) == [kind |-> "tree", tree |-> entries]

\* git mktree, recursively: the tree object of a set of (components, blob)
RECURSIVE MakeNode(_)
MakeNode(S) ==
    [name \in {Head(f.comps) : f \in S} |->
        IF \E f \in S : f.comps = <<name>>
        THEN Blob((CHOOSE f \in S : f.comps = <<name>>).blob)
        ELSE Tree(MakeNode({[comps |-> Tail(f.comps), blob |-> f.blob] :
                              f \in {g \in S : Head(g.comps) = name}}))]

\* MakeTree: the tree-hash of a set of file records
MakeTree(files) ==
    MakeNode({[comps |-> Components(f.path), blob |-> f.blob] : f \in files})

\* the directory `name` of a tree object (empty when there is none)
Subtree(node, name) ==
    IF name \in DOMAIN node /\ node[name].kind = "tree"
    THEN node[name].tree
    ELSE <<>>

\* set(path, file) below one tree object
RECURSIVE NodeSet(_, _, _)
NodeSet(node, comps, b) ==
    IF Len(comps) = 1 THEN Put(node, comps[1], Blob(b))
    ELSE Put(node, comps[1],
             Tree(NodeSet(Subtree(node, comps[1]), Tail(comps), b)))

\* a tree object without the entry `name`
Without(node, name) == [n \in DOMAIN node \ {name} |-> node[n]]

\* delete(path) below one tree object, keeping an emptied directory
RECURSIVE NodeDelKeepEmpty(_, _)
NodeDelKeepEmpty(node, comps) ==
    IF comps[1] \notin DOMAIN node THEN node
    ELSE IF Len(comps) = 1 THEN Without(node, comps[1])
    ELSE IF node[comps[1]].kind # "tree" THEN node
    ELSE Put(node, comps[1],
             Tree(NodeDelKeepEmpty(node[comps[1]].tree, Tail(comps))))

\* delete(path) below one tree object; a path that is not there is left
\* alone, and a directory that loses its last entry goes with it
RECURSIVE NodeDel(_, _)
NodeDel(node, comps) ==
    IF comps[1] \notin DOMAIN node THEN node
    ELSE IF Len(comps) = 1 THEN Without(node, comps[1])
    ELSE IF node[comps[1]].kind # "tree" THEN node
    ELSE IF NodeDel(node[comps[1]].tree, Tail(comps)) = <<>>
         THEN Without(node, comps[1])
         ELSE Put(node, comps[1],
                  Tree(NodeDel(node[comps[1]].tree, Tail(comps))))

\* LazyTree(root_treehash): rooted at a committed tree, or empty
LazyTree(root) == [root |-> root, cached |-> <<root>>]

\* tree.set(path, file)
LazyTree_set(t, f) ==
    [root |-> NodeSet(t.root, Components(f.path), f.blob), cached |-> NoHash]

\* tree.delete(path)
LazyTree_delete(t, path) ==
    [root |-> NodeDel(t.root, Components(path)), cached |-> NoHash]

\* tree.hash(): the cached hash, or the materialized tree object
LazyTree_hash(t) == IF t.cached # NoHash THEN t.cached[1] ELSE t.root

\* the committed trees a LazyTree is rooted at
CommittedTrees == {{}, {A1, B1}, {GitFile("Android.bp", 1), B2, W1}}

TInit ==
    /\ root_treehash \in {MakeTree(T) : T \in CommittedTrees}
    /\ operations = <<>>
    /\ git_lazytree = LazyTree(root_treehash)
    /\ hash_returned = NoHash
    /\ RewriterIdle
    /\ OrchIdle
    /\ FiltersIdle
    /\ StateIdle
    /\ VerifyIdle
    /\ UpdateIdle

\* git_lazytree[f.path] = f
SetItem(f) ==
    /\ Len(operations) < MaxOperations
    /\ operations' = Append(operations, [op |-> "set", file |-> f])
    /\ git_lazytree' = LazyTree_set(git_lazytree, f)
    /\ hash_returned' = NoHash
    /\ UNCHANGED root_treehash
    /\ UNCHANGED <<rvars, ovars, fvars, mvars, pvars, uvars>>

\* del git_lazytree[f.path]
DelItem(f) ==
    /\ Len(operations) < MaxOperations
    /\ operations' = Append(operations, [op |-> "delete", file |-> f])
    /\ git_lazytree' = LazyTree_delete(git_lazytree, f.path)
    /\ hash_returned' = NoHash
    /\ UNCHANGED root_treehash
    /\ UNCHANGED <<rvars, ovars, fvars, mvars, pvars, uvars>>

\* git_lazytree.hash()
Hash ==
    /\ hash_returned' = <<LazyTree_hash(git_lazytree)>>
    /\ git_lazytree' = [git_lazytree EXCEPT !.cached = hash_returned']
    /\ UNCHANGED <<root_treehash, operations>>
    /\ UNCHANGED <<rvars, ovars, fvars, mvars, pvars, uvars>>

TNext ==
    \/ \E p \in Range(Paths), b \in 1 .. 2 : SetItem(GitFile(p, b))
    \/ \E p \in Range(Paths) : DelItem(GitFile(p, 1))
    \/ Hash

SpecLazyTree == TInit /\ [][TNext]_vars

(***************************************************************************)
(* Claims about the lazy tree.                                             *)
(***************************************************************************)
\* the file set of the committed tree a LazyTree is rooted at
RootFiles == CHOOSE T \in CommittedTrees : MakeTree(T) = root_treehash

\* the file set after the first k edits
RECURSIVE FileSet(_)
FileSet(k) ==
    IF k = 0 THEN RootFiles
    ELSE IF operations[k].op = "set"
         THEN {g \in FileSet(k - 1) : g.path # operations[k].file.path}
              \cup {operations[k].file}
         ELSE {g \in FileSet(k - 1) : g.path # operations[k].file.path}

\* C13: after any sequence of set and delete operations on a lazy tree
\* rooted at T, hash() is MakeTree of the file set obtained by applying the
\* same operations to the files of T; deleting a path that is not there
\* changes nothing.
C13_LazyTreeRoundTrip ==
    hash_returned # NoHash
    => hash_returned[1] = MakeTree(FileSet(Len(operations)))

\* a directory lost its last file, a path that was not there was deleted,
\* and hash() was called
C13_Witness ==
    /\ hash_returned # NoHash
    /\ \E k \in DOMAIN operations :
          /\ operations[k].op = "delete"
          /\ operations[k].file.path \notin {g.path : g \in FileSet(k - 1)}
    /\ \E k \in DOMAIN operations :
          /\ operations[k].op = "delete"
          /\ operations[k].file.path = "base/win/b.h"
          /\ operations[k].file.path \in {g.path : g \in FileSet(k - 1)}

(***************************************************************************)
(* The State of the orchestrator on its own: set_failed is called for      *)
(* boards in any order, and failed_matrix is called on the result.         *)
(***************************************************************************)
\* the packages given to set_failed
MatrixPackages == {"A", "B", "SYSTEM"}

\* State.__init__
SInit ==
    /\ state_failed = <<>>
    /\ matrix_returned = NoMatrix
    /\ RewriterIdle
    /\ OrchIdle
    /\ FiltersIdle
    /\ LazyTreeIdle
    /\ VerifyIdle
    /\ UpdateIdle

\* a call of State.set_failed
SetFailed(board, packages) ==
    /\ state_failed' = set_failed(state_failed, board, packages)
    /\ matrix_returned' = NoMatrix
    /\ UNCHANGED <<rvars, ovars, fvars, tvars, pvars, uvars>>

\* a call of State.failed_matrix
FailedMatrix(delimiter, align) ==
    /\ matrix_returned' = failed_matrix(state_failed, delimiter, align)
    /\ UNCHANGED state_failed
    /\ UNCHANGED <<rvars, ovars, fvars, tvars, pvars, uvars>>

SNext ==
    \/ \E board \in Range(BoardNames), packages \in SUBSET MatrixPackages :
          SetFailed(board, packages)
    \/ \E delimiter \in {" ", "     ", ","}, align \in BOOLEAN :
          FailedMatrix(delimiter, align)

SpecState == SInit /\ [][SNext]_vars

(***************************************************************************)
(* Claims about the failed matrix.                                         *)
(***************************************************************************)
\* the failed packages of the board of a column of the header
FailedUnder(column) ==
    (CHOOSE item \in Range(state_failed) : item[1] = column.text)[2]

\* C17: in the matrix returned by failed_matrix, for boards given in any
\* order, the cell of the row of package p under the header column of board
\* b is X if and only if p is in the failed set of b.
C17_MatrixCells ==
    matrix_returned.raised = ""
    => \A line \in matrix_returned.data :
          /\ Len(line) = Len(matrix_returned.header)
          /\ \A k \in 2 .. Len(line) :
                line[k].text = "X"
                <=> line[1].text \in FailedUnder(matrix_returned.header[k])

(***************************************************************************)
(* process_commits on a range long enough for                              *)
(* _VERIFY_INTEGRITY_DISTANCE: a pending commit is what the loop body does *)
(* with it: "elide" (skipped by look-forward, or neither a merge nor a     *)
(* filtered diff), "emit" (a commit is made for a non-merge) or "merge" (a *)
(* commit is made for a merge).                                            *)
(***************************************************************************)
\* most positions of a range whose commit differs from the others
MaxSpecial == 2

\* len(pending_commits)
RangeLengths ==
    {1, _VERIFY_INTEGRITY_DISTANCE, _VERIFY_INTEGRITY_DISTANCE + 1,
     2 * _VERIFY_INTEGRITY_DISTANCE}

SpecialPositions ==
    {_VERIFY_INTEGRITY_DISTANCE \div 2, _VERIFY_INTEGRITY_DISTANCE - 1,
     _VERIFY_INTEGRITY_DISTANCE, _VERIFY_INTEGRITY_DISTANCE + 1}

CommitRanges ==
    {[n |-> n, default |-> d, special |-> s] :
        n \in RangeLengths, d \in {"elide", "emit"},
        s \in UNION {[S -> {"elide", "emit", "merge"}] :
                        S \in {T \in SUBSET SpecialPositions :
                                  Cardinality(T) <= MaxSpecial}}}

\* what the loop body does with pending_commits[idx - 1]
KindOf(idx) ==
    IF idx \in DOMAIN commit_range.special THEN commit_range.special[idx]
    ELSE commit_range.default

\* process_commits before its loop
PInit ==
    /\ commit_range \in CommitRanges
    /\ verify_loop = [pc |-> "loop", i |-> 1, last_commit |-> NoCommit,
                      last_verified |-> -1]
    /\ verify_calls = <<>>
    /\ RewriterIdle
    /\ OrchIdle
    /\ FiltersIdle
    /\ LazyTreeIdle
    /\ StateIdle
    /\ UpdateIdle

\* a call verify_commit(libchrome_filter, original_commit, new_tree), new_tree
\* being the tree of the commit made for pending commit made_for
VerifyCall(original_commit, made_for, passes) ==
    [original_commit |-> original_commit, made_for |-> made_for,
     passes |-> passes]

\* a verification in the loop on merges only
MustVerify_MergeOnly(idx, last) == KindOf(idx) = "merge"

\* process_commits: "merge commit OR every _VERIFY_INTEGRITY_DISTANCE"
MustVerify(idx, last) ==
    KindOf(idx) = "merge" \/ idx - last >= _VERIFY_INTEGRITY_DISTANCE

PFrame == UNCHANGED <<rvars, ovars, fvars, tvars, mvars, uvars>>

\* an iteration that makes no commit
IterateElide ==
    /\ verify_loop.pc = "loop"
    /\ verify_loop.i <= commit_range.n
    /\ KindOf(verify_loop.i) = "elide"
    /\ verify_loop' = [verify_loop EXCEPT !.i = @ + 1]
    /\ UNCHANGED <<commit_range, verify_calls>>
    /\ PFrame

\* an iteration that makes a commit and does not verify it
IterateEmit ==
    /\ verify_loop.pc = "loop"
    /\ verify_loop.i <= commit_range.n
    /\ KindOf(verify_loop.i) # "elide"
    /\ ~MustVerify(verify_loop.i, verify_loop.last_verified)
    /\ verify_loop' = [verify_loop EXCEPT !.i = @ + 1,
                                          !.last_commit = verify_loop.i]
    /\ UNCHANGED <<commit_range, verify_calls>>
    /\ PFrame

\* an iteration that makes a commit and verifies it; the assertion of
\* verify_commit holds (passes) or fails
IterateVerify(passes) ==
    /\ verify_loop.pc = "loop"
    /\ verify_loop.i <= commit_range.n
    /\ KindOf(verify_loop.i) # "elide"
    /\ MustVerify(verify_loop.i, verify_loop.last_verified)
    /\ verify_calls' = Append(verify_calls,
                           VerifyCall(verify_loop.i, verify_loop.i, passes))
    /\ verify_loop' = [pc |-> IF passes THEN "loop" ELSE "AssertionError",
                       i |-> IF passes THEN verify_loop.i + 1
                             ELSE verify_loop.i,
                       last_commit |-> verify_loop.i,
                       last_verified |-> verify_loop.i]
    /\ UNCHANGED commit_range
    /\ PFrame

\* "Verify last commit" with no commit made: get_metadata(None) raises
VerifyLastNone ==
    /\ verify_loop.pc = "loop"
    /\ verify_loop.i > commit_range.n
    /\ verify_loop.last_commit = NoCommit
    /\ verify_loop' = [verify_loop EXCEPT !.pc = "TypeError"]
    /\ UNCHANGED <<commit_range, verify_calls>>
    /\ PFrame

\* "Verify last commit" and the return
VerifyLastCommit(passes) ==
    /\ verify_loop.pc = "loop"
    /\ verify_loop.i > commit_range.n
    /\ verify_loop.last_commit # NoCommit
    /\ verify_calls' = Append(verify_calls,
                           VerifyCall(commit_range.n, verify_loop.last_commit,
                                      passes))
    /\ verify_loop' = [verify_loop EXCEPT
                          !.pc = IF passes THEN "return" ELSE "AssertionError"]
    /\ UNCHANGED commit_range
    /\ PFrame

PNext ==
    \/ IterateElide
    \/ IterateEmit
    \/ \E passes \in BOOLEAN : IterateVerify(passes)
    \/ VerifyLastNone
    \/ \E passes \in BOOLEAN : VerifyLastCommit(passes)

SpecVerify == PInit /\ [][PNext]_vars

(***************************************************************************)
(* Claims about the verification in process_commits.                       *)
(***************************************************************************)
\* verify_commit has been called for the pending commit
Verified(idx) ==
    \E k \in DOMAIN verify_calls : verify_calls[k].original_commit = idx

\* the positions that are a multiple of _VERIFY_INTEGRITY_DISTANCE
EveryDistance ==
    {k * _VERIFY_INTEGRITY_DISTANCE : k \in 1 .. 2}

\* the loop body has run for the pending commit
Iterated(idx) ==
    /\ idx <= commit_range.n
    /\ \/ idx < verify_loop.i
       \/ idx = verify_loop.i /\ verify_loop.pc = "AssertionError"

\* C21: in every run of process_commits, the from-scratch tree comparison
\* is performed for every emitted merge commit, for every 1000th commit of
\* the upstream range, and for the final commit of the range; a mismatch
\* stops the run with a fatal error.
C21_VerificationCoverage ==
    /\ \A idx \in DOMAIN commit_range.special \cup EveryDistance :
           (Iterated(idx)
              /\ (KindOf(idx) = "merge" \/ idx \in EveryDistance))
           => Verified(idx)
    /\ verify_loop.pc = "return" => Verified(commit_range.n)
    /\ \A k \in DOMAIN verify_calls :
           ~verify_calls[k].passes => verify_loop.pc = "AssertionError"

\* the position of the last commit verified so far, -1 when there is none
LastVerifiedPosition ==
    IF verify_calls = <<>> THEN -1
    ELSE Last(verify_calls).original_commit

\* this step calls verify_commit
CallsVerify == Len(verify_calls') = Len(verify_calls) + 1

\* C21, amended: the comparison is performed for every emitted merge
\* commit, for every emitted commit whose position is at least 1000 beyond
\* the position of the last commit verified (-1 at the start) and for no
\* other commit in the loop, and a run returns only after the comparison
\* of the final commit of the range with the tree of the last commit made;
\* a mismatch stops the run with a fatal error.
C21_VerificationByDistance ==
    [][/\ (verify_loop.pc = "loop" /\ verify_loop.i <= commit_range.n)
          => /\ CallsVerify
                <=> /\ KindOf(verify_loop.i) # "elide"
                    /\ \/ KindOf(verify_loop.i) = "merge"
                       \/ verify_loop.i - LastVerifiedPosition
                              >= _VERIFY_INTEGRITY_DISTANCE
             /\ CallsVerify
                => /\ Last(verify_calls').original_commit = verify_loop.i
                   /\ Last(verify_calls').made_for = verify_loop.i
       /\ verify_loop'.pc = "return"
          => /\ CallsVerify
             /\ Last(verify_calls').original_commit = commit_range.n
             /\ Last(verify_calls').made_for = verify_loop.last_commit
             /\ KindOf(verify_loop.last_commit) # "elide"
             /\ \A idx \in DOMAIN commit_range.special :
                    (idx > verify_loop.last_commit /\ idx <= commit_range.n)
                    => KindOf(idx) = "elide"
       /\ CallsVerify
          => (verify_loop'.pc = "AssertionError"
              <=> ~Last(verify_calls').passes)]_vars

\* a run over 2000 commits has returned; commit 999, not a merge, was
\* verified for its distance, and commit 1000 after it was not
C21_Witness ==
    /\ verify_loop.pc = "return"
    /\ commit_range.n = 2 * _VERIFY_INTEGRITY_DISTANCE
    /\ KindOf(_VERIFY_INTEGRITY_DISTANCE - 1) = "emit"
    /\ KindOf(_VERIFY_INTEGRITY_DISTANCE) = "emit"
    /\ Verified(_VERIFY_INTEGRITY_DISTANCE - 1)
    /\ ~Verified(_VERIFY_INTEGRITY_DISTANCE)
    /\ Verified(2 * _VERIFY_INTEGRITY_DISTANCE - 1)

(***************************************************************************)
(* update_upstream.py.  The commits of the filtered repository are records *)
(* with their tree, parents, message and original-commit cursor.  The run  *)
(* of generate_filtered_tree.py that add makes is an external command with *)
(* an exit status and the head it prints; the run that forward makes is    *)
(* main() of generate_filtered_tree.py on the same repository.             *)
(***************************************************************************)
CROS_LIBCHROME_CURRENT_COMMIT == "CrOS-Libchrome-Current-Commit"

\* the original-commit cursor of args.current, and args.target
OriginalCursor == "c1"
Target == "c2"

\* utils.get_file_list(target)
TargetFiles == <<A2, B1, W1>>

\* argparse's namespace
UpdateNamespace(current, all, del, add_files, fwd) ==
    [current |-> current, target |-> Target, all |-> all, delete |-> del,
     add |-> add_files, forward |-> fwd]

\* the command lines that pass the assertion of main()
UpdateCommandLines(current) ==
    {UpdateNamespace(current, a, d, n, w) : a, d, n, w \in BOOLEAN} \
    {UpdateNamespace(current, FALSE, FALSE, FALSE, FALSE)}

\* a commit of cros/upstream
FilteredCommit(tree, parents, message, cursor) ==
    [tree |-> tree, parents |-> parents, message |-> message,
     original_commit_cursor |-> cursor]

\* the trees args.current may have
CurrentTrees == (SUBSET {A1, B1, W1}) \cup {{A2}, {A2, B1}}

\* the message of the commits of the browser repository
BrowserMessage == <<"Update">>

\* cros/upstream: the commit the tool made for the cursor and, on top of it,
\* the commits made by hand since
UpstreamBranches ==
    {<<FilteredCommit(tree, <<>>,
           CommitMessage([message |-> BrowserMessage],
                         CROS_LIBCHROME_ORIGINAL_COMMIT, OriginalCursor),
           OriginalCursor)>> \o by_hand :
        tree \in CurrentTrees,
        by_hand \in {<<>>} \cup
                    {<<FilteredCommit(t, <<1>>, LocalMessage, OriginalCursor)>> :
                        t \in CurrentTrees}}

UInit ==
    /\ cros_upstream \in UpstreamBranches
    /\ args \in UpdateCommandLines(Len(cros_upstream))
    /\ cursor_files \in {TreeFiles(t) : t \in SUBSET {A1, B1, W1}}
    /\ update_main = [pc |-> "delete", current |-> args.current, err |-> "",
                      stdout |-> NoCommit]
    /\ stages = <<>>
    /\ RewriterIdle
    /\ OrchIdle
    /\ FiltersIdle
    /\ LazyTreeIdle
    /\ StateIdle
    /\ VerifyIdle

\* new_filter.want_file(path): Filter defines _want_file, _keep_file,
\* filter_files and filter_diff and no want_file, the call raises
want_file(f, path) == [raised |-> "AttributeError"]

\* the loop of delete over current_files
RECURSIVE DeleteLoop(_, _, _, _)
RECURSIVE DeleteStep(_, _, _, _, _)
DeleteLoop(tree, file_list, k, f) ==
    IF k > Len(file_list) THEN [raised |-> "", tree |-> tree]
    ELSE DeleteStep(tree, file_list, k, f, want_file(f, file_list[k].path))

DeleteStep(tree, file_list, k, f, wanted) ==
    IF wanted.raised # "" THEN [raised |-> wanted.raised, tree |-> tree]
    ELSE DeleteLoop(IF wanted.value THEN tree
                    ELSE LazyTreeDel(tree, file_list[k].path),
                    file_list, k + 1, f)

\* the loop of add over new_files, and of verify over the files of the
\* cursor
RECURSIVE WantedLoop(_, _, _, _)
RECURSIVE WantedStep(_, _, _, _, _)
WantedLoop(tree, file_list, k, f) ==
    IF k > Len(file_list) THEN [raised |-> "", tree |-> tree]
    ELSE WantedStep(tree, file_list, k, f, want_file(f, file_list[k].path))

WantedStep(tree, file_list, k, f, wanted) ==
    IF wanted.raised # "" THEN [raised |-> wanted.raised, tree |-> tree]
    ELSE WantedLoop(IF wanted.value THEN LazyTreeSet(tree, file_list[k])
                    ELSE tree,
                    file_list, k + 1, f)

\* what a stage leaves: the exception it raised, the commit it returned and
\* the repository
Returns(raised, value, objs) ==
    [raised |-> raised, value |-> value, objects |-> objs]

\* delete from tree.hash(), for the tree its loop left
Deleted(objs, current, del) ==
    IF del.raised # "" THEN Returns(del.raised, current, objs)
    ELSE IF del.tree = objs[current].tree THEN Returns("", current, objs)
    ELSE Returns("", Len(objs) + 1,
             Append(objs,
                 FilteredCommit(del.tree, <<current>>,
                     <<"Remove unnecessary files due to filter change",
                       "\n\n", CROS_LIBCHROME_CURRENT_COMMIT, ": ",
                       objs[current].original_commit_cursor>>,
                     objs[current].original_commit_cursor)))

\* delete(current)
delete(objs, current) ==
    Deleted(objs, current,
        DeleteLoop(objs[current].tree, TreeFiles(objs[current].tree), 1,
                   libchrome_filter))

\* the head generate_filtered_tree.py prints for --filter_files with the
\* paths of files_to_add: the history of these files up to the cursor
NewFileHistoryHead(files_to_add) ==
    FilteredCommit({f \in Range(cursor_files) :
                       f.path \in {g.path : g \in files_to_add}},
                   <<>>,
                   <<"Add files", "\n\n",
                     CROS_LIBCHROME_RECOVERED_FROM_COMMIT, ": ",
                     OriginalCursor, "\n">>,
                   OriginalCursor)

\* current_tree[f.path] = f for the files of the side branch
RECURSIVE Overlay(_, _, _)
Overlay(tree, file_list, k) ==
    IF k > Len(file_list) THEN tree
    ELSE Overlay(LazyTreeSet(tree, file_list[k]), file_list, k + 1)

\* add from the subprocess, for the tree of the wanted files and the files
\* to add
Added(objs, current, tree, files_to_add, returncode) ==
    IF returncode # 0 THEN Returns("AssertionError", current, objs)
    ELSE IF tree # Overlay(objs[current].tree,
                      TreeFiles(NewFileHistoryHead(files_to_add).tree), 1)
    THEN Returns("AssertionError", current,
                 Append(objs, NewFileHistoryHead(files_to_add)))
    ELSE Returns("", Len(objs) + 2,
             Append(Append(objs, NewFileHistoryHead(files_to_add)),
                 FilteredCommit(tree, <<current, Len(objs) + 1>>,
                     <<"Add new files due to filter change", "\n\n",
                       CROS_LIBCHROME_CURRENT_COMMIT, ": ",
                       objs[current].original_commit_cursor>>,
                     objs[current].original_commit_cursor)))

\* add from tree.hash(), for new_files and the tree its loop left
AddNewFiles(objs, current, new_files, wanted, returncode) ==
    IF wanted.raised # "" THEN Returns(wanted.raised, current, objs)
    ELSE IF wanted.tree = objs[current].tree THEN Returns("", current, objs)
    ELSE IF new_files \ objs[current].tree = {}
    THEN Returns("", current, objs)
    ELSE Added(objs, current, wanted.tree, new_files \ objs[current].tree,
               returncode)

\* add(current); returncode is the exit status of generate_filtered_tree.py
add(objs, current, returncode) ==
    AddNewFiles(objs, current,
        Range(filter_files(libchrome_filter, <<>>, cursor_files)),
        WantedLoop({}, filter_files(libchrome_filter, <<>>, cursor_files), 1,
                   libchrome_filter),
        returncode)

\* verify(current)
verify(objs, current) ==
    [WantedLoop({}, cursor_files, 1, libchrome_filter)
        EXCEPT !.tree = (@ = objs[current].tree)]

\* the browser repository update_upstream.py is run on: args.target on top
\* of the original-commit cursor
BrowserParents(commit) == IF commit = Target THEN <<OriginalCursor>> ELSE <<>>

BrowserFiles(commit) == IF commit = Target THEN TargetFiles ELSE cursor_files

BrowserAncestors(commit) ==
    IF commit = Target THEN {OriginalCursor, Target}
    ELSE IF commit = OriginalCursor THEN {OriginalCursor}
    ELSE {}

\* utils.git_revlist in that repository
BrowserRevlist(from_commit, to_commit) ==
    SelectSeq(<<OriginalCursor, Target>>,
              LAMBDA c : c \in BrowserAncestors(to_commit)
                               \ BrowserAncestors(from_commit))

\* find_filtered_commit in that repository (no commit of it is a merge)
RECURSIVE FilteredOf(_, _)
FilteredOf(commit, map) ==
    IF commit \in DOMAIN map THEN map[commit]
    ELSE IF BrowserParents(commit) = <<>> THEN map[ROOT]
    ELSE FilteredOf(BrowserParents(commit)[1], map)

\* a run of generate_filtered_tree.py: its exit status, the head it prints,
\* the repository and, while it runs, its commits_map and last_commit
Process(returncode, printed, objs, map, last) ==
    [returncode |-> returncode, stdout |-> printed, objects |-> objs,
     commits_map |-> map, last_commit |-> last]

\* generate_filtered_tree.py main(): the commit standing for ROOT is made on
\* parent_filtered when the branch has none
RootedBranch(objs, map, parent_filtered) ==
    IF ROOT \in DOMAIN map THEN [objects |-> objs, map |-> map]
    ELSE [objects |-> Append(objs,
                         FilteredCommit(git_mktree(<<>>), <<parent_filtered>>,
                             <<CROS_LIBCHROME_INITIAL_COMMIT>>,
                             objs[parent_filtered].original_commit_cursor)),
          map |-> Put(map, ROOT, Len(objs) + 1)]

\* one iteration of the loop of process_commits without look-forward, for
\* the filtered diff with the parent and the map find_filtered_commit left:
\* a commit without diff is skipped, another is made from the tree of its
\* parent's filtered commit; an uncaught exception ends the run with exit
\* status 1.  No commit is a merge and the range has fewer than
\* _VERIFY_INTEGRITY_DISTANCE commits: no commit is verified in the loop
ForwardCommit(proc, commit, parents, diff, map) ==
    IF ~diff.ok THEN [proc EXCEPT !.returncode = 1]
    ELSE IF Len(parents) <= 1 /\ Len(diff.value) = 0
    THEN [proc EXCEPT !.commits_map =
             IF Len(parents) = 1 THEN Put(map, commit, map[parents[1]])
             ELSE map]
    ELSE [proc EXCEPT
            !.objects = Append(@,
                FilteredCommit(
                    ApplyDiff(IF parents # <<>>
                              THEN proc.objects[map[parents[1]]].tree
                              ELSE {},
                              diff.value, 1),
                    [k \in DOMAIN parents |-> map[parents[k]]],
                    CommitMessage([message |-> BrowserMessage],
                                  CROS_LIBCHROME_ORIGINAL_COMMIT, commit),
                    commit)),
            !.commits_map = Put(map, commit, Len(proc.objects) + 1),
            !.last_commit = Len(proc.objects) + 1]

\* the loop of process_commits
RECURSIVE ForwardCommits(_, _, _)
ForwardCommits(proc, pending, k) ==
    IF proc.returncode # 0 \/ k > Len(pending) THEN proc
    ELSE ForwardCommits(
            ForwardCommit(proc, pending[k], BrowserParents(pending[k]),
                filter_diff(libchrome_filter,
                    DiffTrees(IF BrowserParents(pending[k]) # <<>>
                              THEN Range(BrowserFiles(
                                       BrowserParents(pending[k])[1]))
                              ELSE {},
                              Range(BrowserFiles(pending[k])))),
                IF BrowserParents(pending[k]) # <<>>
                THEN Put(proc.commits_map, BrowserParents(pending[k])[1],
                         FilteredOf(BrowserParents(pending[k])[1],
                                    proc.commits_map))
                ELSE proc.commits_map),
            pending, k + 1)

\* process_commits, "Verify last commit", and print(new_head): the range is
\* empty (IndexError), no commit was made (get_metadata of None fails) or
\* the assertion of verify_commit fails: exit status 1
VerifiedHead(proc, pending) ==
    IF proc.returncode # 0 THEN proc
    ELSE IF pending = <<>> \/ proc.last_commit = NoCommit
    THEN [proc EXCEPT !.returncode = 1]
    ELSE IF git_mktree(filter_files(libchrome_filter, <<>>,
                                    BrowserFiles(Last(pending))))
            # proc.objects[proc.last_commit].tree
    THEN [proc EXCEPT !.returncode = 1]
    ELSE [proc EXCEPT !.stdout = proc.last_commit]

\* main() of generate_filtered_tree.py after the commits map is read, for
\* the branch with its ROOT commit and the map after the re-pointing:
\* last_known.decode raises when parent_filtered itself is annotated
FilteredFrom(original, goal_browser, rooted, repointed) ==
    IF repointed.raised # ""
    THEN Process(1, NoCommit, rooted.objects, repointed.map, NoCommit)
    ELSE VerifiedHead(
             ForwardCommits(
                 Process(0, NoCommit, rooted.objects, repointed.map, NoCommit),
                 BrowserRevlist(original, goal_browser), 1),
             BrowserRevlist(original, goal_browser))

\* the command of forward: generate_filtered_tree.py <parent_filtered>
\* <goal_browser> --verbose
GENERATED_FILTERED_TREE(objs, parent_filtered, goal_browser) ==
    LET last_known == get_start_commit_of_browser_tree(objs, parent_filtered)
        original == LastKnownOriginal(objs, last_known)
        rooted == RootedBranch(objs, get_commits_map(objs, parent_filtered),
                               parent_filtered)
    IN  FilteredFrom(original, goal_browser, rooted,
            Repointed(rooted.map, last_known, original, parent_filtered))

\* forward from "assert proc.returncode == 0"
Forwarded(current, proc) ==
    IF proc.returncode # 0
    THEN Returns("AssertionError", current, proc.objects)
    ELSE Returns("", proc.stdout, proc.objects)

\* forward(current, target)
forward(objs, current, target) ==
    Forwarded(current, GENERATED_FILTERED_TREE(objs, current, target))

UFrame == UNCHANGED <<rvars, ovars, fvars, tvars, mvars, pvars>>

\* main() after a stage
AfterStage(r, next) ==
    /\ cros_upstream' = r.objects
    /\ update_main' = IF r.raised # ""
                      THEN [update_main EXCEPT !.pc = "raised",
                                               !.err = r.raised]
                      ELSE [update_main EXCEPT !.pc = next,
                                               !.current = r.value]

\* main(): a stage is started on current
Started(stage) ==
    stages' = Append(stages, [stage |-> stage, current |-> update_main.current])

\* main(): "if args.all or args.delete"
MainDelete ==
    /\ update_main.pc = "delete"
    /\ IF args.all \/ args.delete
       THEN /\ Started("delete")
            /\ AfterStage(delete(cros_upstream, update_main.current), "add")
       ELSE /\ update_main' = [update_main EXCEPT !.pc = "add"]
            /\ UNCHANGED <<cros_upstream, stages>>
    /\ UNCHANGED <<args, cursor_files>>
    /\ UFrame

\* main(): "if args.all or args.add"
MainAdd(returncode) ==
    /\ update_main.pc = "add"
    /\ IF args.all \/ args.add
       THEN /\ Started("add")
            /\ AfterStage(add(cros_upstream, update_main.current, returncode),
                          "verify")
       ELSE /\ update_main' = [update_main EXCEPT !.pc = "verify"]
            /\ UNCHANGED <<cros_upstream, stages>>
    /\ UNCHANGED <<args, cursor_files>>
    /\ UFrame

\* main(): "if args.all or args.forward: assert verify(current)"
MainVerify ==
    /\ update_main.pc = "verify"
    /\ IF args.all \/ args.forward
       THEN /\ Started("verify")
            /\ \E v \in {verify(cros_upstream, update_main.current)} :
                  update_main' =
                     IF v.raised # ""
                     THEN [update_main EXCEPT !.pc = "raised",
                                              !.err = v.raised]
                     ELSE IF ~v.tree
                     THEN [update_main EXCEPT !.pc = "raised",
                                              !.err = "AssertionError"]
                     ELSE [update_main EXCEPT !.pc = "forward"]
       ELSE /\ update_main' = [update_main EXCEPT !.pc = "print"]
            /\ UNCHANGED stages
    /\ UNCHANGED <<args, cursor_files, cros_upstream>>
    /\ UFrame

\* main(): "current = forward(current, target)"
MainForward ==
    /\ update_main.pc = "forward"
    /\ Started("forward")
    /\ AfterStage(forward(cros_upstream, update_main.current, args.target),
                  "print")
    /\ UNCHANGED <<args, cursor_files>>
    /\ UFrame

\* main(): print(current)
MainPrint ==
    /\ update_main.pc = "print"
    /\ update_main' = [update_main EXCEPT !.pc = "done",
                                          !.stdout = update_main.current]
    /\ UNCHANGED <<args, cursor_files, cros_upstream, stages>>
    /\ UFrame

UNext ==
    \/ MainDelete
    \/ \E returncode \in {0, 1} : MainAdd(returncode)
    \/ MainVerify
    \/ MainForward
    \/ MainPrint

SpecUpdate == UInit /\ [][UNext]_vars

(***************************************************************************)
(* update_upstream.py: claims.                                             *)
(***************************************************************************)
\* want(path) of the filter in use
WantsPath(path) == _want_file(libchrome_filter, path)

\* the tree of the wanted files of the original-commit cursor
WantedOfCursor == {f \in Range(cursor_files) : WantsPath(f.path)}

\* the stage returned commit c without adding a commit
ReturnsUnchanged(c, next) ==
    /\ update_main'.pc = next
    /\ update_main'.current = c
    /\ cros_upstream' = cros_upstream

\* the stage returned a commit it made
ReturnsNew(next) ==
    /\ update_main'.pc = next
    /\ update_main'.current = Len(cros_upstream')
    /\ update_main'.current > Len(cros_upstream)

\* C25: delete(current) returns current unchanged when every file of
\* current's tree is wanted; otherwise it returns a new commit whose only
\* parent is current and whose tree is current's tree without exactly the
\* files whose path is not wanted.
C25_DeleteStep ==
    update_main.pc = "delete" /\ (args.all \/ args.delete)
    => IF \A f \in cros_upstream[update_main.current].tree : WantsPath(f.path)
       THEN ReturnsUnchanged(update_main.current, "add")
       ELSE /\ ReturnsNew("add")
            /\ cros_upstream'[update_main'.current].parents =
                  <<update_main.current>>
            /\ cros_upstream'[update_main'.current].tree =
                  {f \in cros_upstream[update_main.current].tree :
                      WantsPath(f.path)}

C25_DeletePhase == [][C25_DeleteStep]_vars

\* C26: add(current) returns current unchanged when no wanted file of the
\* original-commit cursor is missing from current; otherwise, unless one of
\* its assertions stops it, it returns a merge commit with the two parents
\* current and the head of the imported side branch, whose tree is current's
\* tree overlaid with the files of that head and equals the tree of all
\* wanted files of the cursor.
C26_AddStep ==
    update_main.pc = "add" /\ (args.all \/ args.add)
    => IF WantedOfCursor \subseteq cros_upstream[update_main.current].tree
       THEN ReturnsUnchanged(update_main.current, "verify")
       ELSE \/ update_main'.err = "AssertionError"
            \/ /\ ReturnsNew("verify")
               /\ cros_upstream'[update_main'.current].parents =
                     <<update_main.current, update_main'.current - 1>>
               /\ cros_upstream'[update_main'.current].tree =
                     Overlay(cros_upstream[update_main.current].tree,
                         TreeFiles(
                            cros_upstream'[update_main'.current - 1].tree),
                         1)
               /\ cros_upstream'[update_main'.current].tree = WantedOfCursor

C26_AddPhase == [][C26_AddStep]_vars

\* the names of the stages started so far
StageNames == [k \in 1..Len(stages) |-> stages[k].stage]

\* C27: with --all the stages run in the order delete, add, forward, each on
\* the head the previous one returned; forward is started only on a head
\* whose tree is the tree of the wanted files of its cursor, and a run that
\* does not reach forward stops on a failed assertion.
C27_DriverComposition ==
    args # <<>> /\ args.all
    => /\ \E n \in 0..4 :
             StageNames = SubSeq(<<"delete", "add", "verify", "forward">>,
                                 1, n)
       /\ \A k \in 1..Len(stages) :
             stages[k].stage = "forward"
             => cros_upstream[stages[k].current].tree = WantedOfCursor
       /\ update_main.pc = "raised" => update_main.err = "AssertionError"
       /\ update_main.pc = "done"
          => StageNames = <<"delete", "add", "verify", "forward">>
====
